---- MODULE Spec2Model ----
(***************************************************************************)
(* A model of the flex 8086 core: the bus (bus.c), the prefetch unit, the  *)
(* staged decoder and the opcode handlers of cpu8086.c.  Line numbers in   *)
(* the comments refer to src/src/util.h, which holds cpu8086.c from its    *)
(* line 20 on, unless another file is named.                               *)
(***************************************************************************)
EXTENDS Integers, Sequences, FiniteSets, TLC

VARIABLES sys, phase, ticks, resets, probe

vars == <<sys, phase, ticks, resets, probe>>

(***************************************************************************)
(* Bounds of the exploration.                                              *)
(***************************************************************************)
MaxTicks == 40
MaxResets == 1

(***************************************************************************)
(* Program constants (src/src/cpu8086.h).                                  *)
(***************************************************************************)
AX == 0
CX == 1
DX == 2
BX == 3
SP == 4
BP == 5
SI == 6
DI == 7
ES == 8
CS == 9
SS == 10
DS == 11
REGISTER_COUNT == 12
FLAG_CARRY == 1
FLAG_PARITY == 4
FLAG_AUXILIARY == 16
FLAG_ZERO == 64
FLAG_SIGN == 128
FLAG_TRAP == 256
FLAG_INTENABLE == 512
FLAG_DIRECTION == 1024
FLAG_OVERFLOW == 2048
REG_FIELD == 3
MOD_INDIRECT == 0
MOD_DISP8 == 1
MOD_DISP16 == 2
MOD_REG == 3
PREFIX_G1_NONE == 0
PREFIX_G1_LOCK == 240
PREFIX_G1_REPNZ == 242
PREFIX_G1_REPZ == 243
PREFIX_G2_NONE == 0
PREFIX_G2_ES == 38
PREFIX_G2_CS == 46
PREFIX_G2_SS == 54
PREFIX_G2_DS == 62
OPCODE_NONE == 65535
MODRM_NONE == 65535
DISP8_NONE == 65535
DISP16_NONE == 65535
IMM8_NONE == 65535
IMM16_NONE == 65535
\* The header that declares these two is not among the sources; they are
\* taken to be the same sentinel as the other scratch bytes.
LO_SEGMENT_NONE == 65535
HI_SEGMENT_NONE == 65535

(***************************************************************************)
(* Fixed-width arithmetic.                                                 *)
(***************************************************************************)
Pow2(n) == 2 ^ n
U8(x) == x % 256
U16(x) == x % 65536
Bit(x, n) == (x \div Pow2(n)) % 2
LoByte(x) == x % 256
HiByte(x) == (x \div 256) % 256
\* a faulty (int8_t)x, which takes the byte as unsigned
S8_unsigned(x) == x % 256

\* (int8_t)x and (int16_t)x of a byte / word, as a signed integer
S8(x) == IF (x % 256) >= 128 THEN (x % 256) - 256 ELSE x % 256
S16(x) == IF (x % 65536) >= 32768 THEN (x % 65536) - 65536 ELSE x % 65536
\* ~x + 1 assigned to a uint16_t
Neg16(x) == (65536 - (x % 65536)) % 65536

mask_buffer(is_word) == IF is_word THEN 65535 ELSE 255
sign_bit(is_word) == IF is_word THEN 15 ELSE 7

(***************************************************************************)
(* parity_table: the P2/P4/P6 macros expand a base-4 digit at a time; a    *)
(* digit 1 or 2 flips the entry, 0 or 3 keeps it.                          *)
(***************************************************************************)
PFlip(n, d) == IF d \in {1, 2} THEN 1 - n ELSE n
P2(n, i) == PFlip(n, i % 4)
P4(n, i) == P2(PFlip(n, (i \div 4) % 4), i)
P6(n, i) == P4(PFlip(n, (i \div 16) % 4), i)
parity_table(i) == P6(PFlip(1, (i \div 64) % 4), i)

calculate_parity(value, is_word) ==
  IF is_word
  THEN (parity_table(value % 256) + parity_table((value \div 256) % 256)) % 2 = 1
  ELSE parity_table(value % 256) = 1

(***************************************************************************)
(* The bus: a zero-filled byte array (quick_malloc is calloc), kept as a   *)
(* function on the addresses written so far.                               *)
(***************************************************************************)
Mask20(a) == a % 1048576
MemAt(memory, a) == IF a \in DOMAIN memory THEN memory[a] ELSE 0
MemPut(memory, a, v) ==
  [x \in (DOMAIN memory) \cup {a} |-> IF x = a THEN v ELSE memory[x]]

\* faulty variants: a byte read that does not mask its address, and a word
\* write whose second byte does not wrap
bus_read_byte_unmasked(memory, address) == MemAt(memory, address)
bus_write_short_no_wrap(memory, address, data) ==
  MemPut(MemPut(memory, Mask20(address), data % 256),
         Mask20(address) + 1, (data \div 256) % 256)

bus_read_byte(memory, address) == MemAt(memory, Mask20(address))
bus_read_short(memory, address) ==
  MemAt(memory, Mask20(address)) + 256 * MemAt(memory, Mask20(address + 1))
bus_write_byte(memory, address, data) == MemPut(memory, Mask20(address), data % 256)
bus_write_short(memory, address, data) ==
  MemPut(MemPut(memory, Mask20(address), data % 256),
         Mask20(address + 1), (data \div 256) % 256)

op_table ==
  <<
  [name |-> "ADD", destination |-> "LOC_RM", source |-> "LOC_REG", is_word |-> FALSE, is_string |-> FALSE, func |-> "op_add"],
  [name |-> "ADD", destination |-> "LOC_RM", source |-> "LOC_REG", is_word |-> TRUE, is_string |-> FALSE, func |-> "op_add"],
  [name |-> "ADD", destination |-> "LOC_REG", source |-> "LOC_RM", is_word |-> FALSE, is_string |-> FALSE, func |-> "op_add"],
  [name |-> "ADD", destination |-> "LOC_REG", source |-> "LOC_RM", is_word |-> TRUE, is_string |-> FALSE, func |-> "op_add"],
  [name |-> "ADD", destination |-> "LOC_AL", source |-> "LOC_IMM", is_word |-> FALSE, is_string |-> FALSE, func |-> "op_add"],
  [name |-> "ADD", destination |-> "LOC_AX", source |-> "LOC_IMM", is_word |-> TRUE, is_string |-> FALSE, func |-> "op_add"],
  [name |-> "PUSH", destination |-> "LOC_ES", source |-> "LOC_NULL", is_word |-> TRUE, is_string |-> FALSE, func |-> "op_push"],
  [name |-> "POP", destination |-> "LOC_ES", source |-> "LOC_NULL", is_word |-> TRUE, is_string |-> FALSE, func |-> "op_pop"],
  [name |-> "OR", destination |-> "LOC_RM", source |-> "LOC_REG", is_word |-> FALSE, is_string |-> FALSE, func |-> "op_or"],
  [name |-> "OR", destination |-> "LOC_RM", source |-> "LOC_REG", is_word |-> TRUE, is_string |-> FALSE, func |-> "op_or"],
  [name |-> "OR", destination |-> "LOC_REG", source |-> "LOC_RM", is_word |-> FALSE, is_string |-> FALSE, func |-> "op_or"],
  [name |-> "OR", destination |-> "LOC_REG", source |-> "LOC_RM", is_word |-> TRUE, is_string |-> FALSE, func |-> "op_or"],
  [name |-> "OR", destination |-> "LOC_AL", source |-> "LOC_IMM", is_word |-> FALSE, is_string |-> FALSE, func |-> "op_or"],
  [name |-> "OR", destination |-> "LOC_AX", source |-> "LOC_IMM", is_word |-> TRUE, is_string |-> FALSE, func |-> "op_or"],
  [name |-> "PUSH", destination |-> "LOC_CS", source |-> "LOC_NULL", is_word |-> TRUE, is_string |-> FALSE, func |-> "op_push"],
  [name |-> "ILLEG.", destination |-> "LOC_NULL", source |-> "LOC_NULL", is_word |-> TRUE, is_string |-> FALSE, func |-> "NULL"],
  [name |-> "ADC", destination |-> "LOC_RM", source |-> "LOC_REG", is_word |-> FALSE, is_string |-> FALSE, func |-> "op_adc"],
  [name |-> "ADC", destination |-> "LOC_RM", source |-> "LOC_REG", is_word |-> TRUE, is_string |-> FALSE, func |-> "op_adc"],
  [name |-> "ADC", destination |-> "LOC_REG", source |-> "LOC_RM", is_word |-> FALSE, is_string |-> FALSE, func |-> "op_adc"],
  [name |-> "ADC", destination |-> "LOC_REG", source |-> "LOC_RM", is_word |-> TRUE, is_string |-> FALSE, func |-> "op_adc"],
  [name |-> "ADC", destination |-> "LOC_AL", source |-> "LOC_IMM", is_word |-> FALSE, is_string |-> FALSE, func |-> "op_adc"],
  [name |-> "ADC", destination |-> "LOC_AX", source |-> "LOC_IMM", is_word |-> TRUE, is_string |-> FALSE, func |-> "op_adc"],
  [name |-> "PUSH", destination |-> "LOC_SS", source |-> "LOC_NULL", is_word |-> TRUE, is_string |-> FALSE, func |-> "op_push"],
  [name |-> "POP", destination |-> "LOC_SS", source |-> "LOC_NULL", is_word |-> TRUE, is_string |-> FALSE, func |-> "op_pop"],
  [name |-> "SBB", destination |-> "LOC_RM", source |-> "LOC_REG", is_word |-> FALSE, is_string |-> FALSE, func |-> "op_sbb"],
  [name |-> "SBB", destination |-> "LOC_RM", source |-> "LOC_REG", is_word |-> TRUE, is_string |-> FALSE, func |-> "op_sbb"],
  [name |-> "SBB", destination |-> "LOC_REG", source |-> "LOC_RM", is_word |-> FALSE, is_string |-> FALSE, func |-> "op_sbb"],
  [name |-> "SBB", destination |-> "LOC_REG", source |-> "LOC_RM", is_word |-> TRUE, is_string |-> FALSE, func |-> "op_sbb"],
  [name |-> "SBB", destination |-> "LOC_AL", source |-> "LOC_IMM", is_word |-> FALSE, is_string |-> FALSE, func |-> "op_sbb"],
  [name |-> "SBB", destination |-> "LOC_AX", source |-> "LOC_IMM", is_word |-> TRUE, is_string |-> FALSE, func |-> "op_sbb"],
  [name |-> "PUSH", destination |-> "LOC_DS", source |-> "LOC_NULL", is_word |-> TRUE, is_string |-> FALSE, func |-> "op_push"],
  [name |-> "POP", destination |-> "LOC_DS", source |-> "LOC_NULL", is_word |-> TRUE, is_string |-> FALSE, func |-> "op_pop"],
  [name |-> "AND", destination |-> "LOC_RM", source |-> "LOC_REG", is_word |-> FALSE, is_string |-> FALSE, func |-> "op_and"],
  [name |-> "AND", destination |-> "LOC_RM", source |-> "LOC_REG", is_word |-> TRUE, is_string |-> FALSE, func |-> "op_and"],
  [name |-> "AND", destination |-> "LOC_REG", source |-> "LOC_RM", is_word |-> FALSE, is_string |-> FALSE, func |-> "op_and"],
  [name |-> "AND", destination |-> "LOC_REG", source |-> "LOC_RM", is_word |-> TRUE, is_string |-> FALSE, func |-> "op_and"],
  [name |-> "AND", destination |-> "LOC_AL", source |-> "LOC_IMM", is_word |-> FALSE, is_string |-> FALSE, func |-> "op_and"],
  [name |-> "AND", destination |-> "LOC_AX", source |-> "LOC_IMM", is_word |-> TRUE, is_string |-> FALSE, func |-> "op_and"],
  [name |-> "ES:", destination |-> "LOC_NULL", source |-> "LOC_NULL", is_word |-> FALSE, is_string |-> FALSE, func |-> "NULL"],
  [name |-> "DAA", destination |-> "LOC_NULL", source |-> "LOC_NULL", is_word |-> FALSE, is_string |-> FALSE, func |-> "op_daa"],
  [name |-> "SUB", destination |-> "LOC_RM", source |-> "LOC_REG", is_word |-> FALSE, is_string |-> FALSE, func |-> "op_sub"],
  [name |-> "SUB", destination |-> "LOC_RM", source |-> "LOC_REG", is_word |-> TRUE, is_string |-> FALSE, func |-> "op_sub"],
  [name |-> "SUB", destination |-> "LOC_REG", source |-> "LOC_RM", is_word |-> FALSE, is_string |-> FALSE, func |-> "op_sub"],
  [name |-> "SUB", destination |-> "LOC_REG", source |-> "LOC_RM", is_word |-> TRUE, is_string |-> FALSE, func |-> "op_sub"],
  [name |-> "SUB", destination |-> "LOC_AL", source |-> "LOC_IMM", is_word |-> FALSE, is_string |-> FALSE, func |-> "op_sub"],
  [name |-> "SUB", destination |-> "LOC_AX", source |-> "LOC_IMM", is_word |-> TRUE, is_string |-> FALSE, func |-> "op_sub"],
  [name |-> "CS:", destination |-> "LOC_NULL", source |-> "LOC_NULL", is_word |-> FALSE, is_string |-> FALSE, func |-> "NULL"],
  [name |-> "DAS", destination |-> "LOC_NULL", source |-> "LOC_NULL", is_word |-> FALSE, is_string |-> FALSE, func |-> "op_das"],
  [name |-> "XOR", destination |-> "LOC_RM", source |-> "LOC_REG", is_word |-> FALSE, is_string |-> FALSE, func |-> "op_xor"],
  [name |-> "XOR", destination |-> "LOC_RM", source |-> "LOC_REG", is_word |-> TRUE, is_string |-> FALSE, func |-> "op_xor"],
  [name |-> "XOR", destination |-> "LOC_REG", source |-> "LOC_RM", is_word |-> FALSE, is_string |-> FALSE, func |-> "op_xor"],
  [name |-> "XOR", destination |-> "LOC_REG", source |-> "LOC_RM", is_word |-> TRUE, is_string |-> FALSE, func |-> "op_xor"],
  [name |-> "XOR", destination |-> "LOC_AL", source |-> "LOC_IMM", is_word |-> FALSE, is_string |-> FALSE, func |-> "op_xor"],
  [name |-> "XOR", destination |-> "LOC_AX", source |-> "LOC_IMM", is_word |-> TRUE, is_string |-> FALSE, func |-> "op_xor"],
  [name |-> "SS:", destination |-> "LOC_NULL", source |-> "LOC_NULL", is_word |-> FALSE, is_string |-> FALSE, func |-> "NULL"],
  [name |-> "AAA", destination |-> "LOC_NULL", source |-> "LOC_NULL", is_word |-> FALSE, is_string |-> FALSE, func |-> "op_aaa"],
  [name |-> "CMP", destination |-> "LOC_RM", source |-> "LOC_REG", is_word |-> FALSE, is_string |-> FALSE, func |-> "op_cmp"],
  [name |-> "CMP", destination |-> "LOC_RM", source |-> "LOC_REG", is_word |-> TRUE, is_string |-> FALSE, func |-> "op_cmp"],
  [name |-> "CMP", destination |-> "LOC_REG", source |-> "LOC_RM", is_word |-> FALSE, is_string |-> FALSE, func |-> "op_cmp"],
  [name |-> "CMP", destination |-> "LOC_REG", source |-> "LOC_RM", is_word |-> TRUE, is_string |-> FALSE, func |-> "op_cmp"],
  [name |-> "CMP", destination |-> "LOC_AL", source |-> "LOC_IMM", is_word |-> FALSE, is_string |-> FALSE, func |-> "op_cmp"],
  [name |-> "CMP", destination |-> "LOC_AX", source |-> "LOC_IMM", is_word |-> TRUE, is_string |-> FALSE, func |-> "op_cmp"],
  [name |-> "DS:", destination |-> "LOC_NULL", source |-> "LOC_NULL", is_word |-> FALSE, is_string |-> FALSE, func |-> "NULL"],
  [name |-> "AAS", destination |-> "LOC_NULL", source |-> "LOC_NULL", is_word |-> FALSE, is_string |-> FALSE, func |-> "op_aas"],
  [name |-> "INC", destination |-> "LOC_AX", source |-> "LOC_NULL", is_word |-> TRUE, is_string |-> FALSE, func |-> "op_inc"],
  [name |-> "INC", destination |-> "LOC_CX", source |-> "LOC_NULL", is_word |-> TRUE, is_string |-> FALSE, func |-> "op_inc"],
  [name |-> "INC", destination |-> "LOC_DX", source |-> "LOC_NULL", is_word |-> TRUE, is_string |-> FALSE, func |-> "op_inc"],
  [name |-> "INC", destination |-> "LOC_BX", source |-> "LOC_NULL", is_word |-> TRUE, is_string |-> FALSE, func |-> "op_inc"],
  [name |-> "INC", destination |-> "LOC_SP", source |-> "LOC_NULL", is_word |-> TRUE, is_string |-> FALSE, func |-> "op_inc"],
  [name |-> "INC", destination |-> "LOC_BP", source |-> "LOC_NULL", is_word |-> TRUE, is_string |-> FALSE, func |-> "op_inc"],
  [name |-> "INC", destination |-> "LOC_SI", source |-> "LOC_NULL", is_word |-> TRUE, is_string |-> FALSE, func |-> "op_inc"],
  [name |-> "INC", destination |-> "LOC_DI", source |-> "LOC_NULL", is_word |-> TRUE, is_string |-> FALSE, func |-> "op_inc"],
  [name |-> "DEC", destination |-> "LOC_AX", source |-> "LOC_NULL", is_word |-> TRUE, is_string |-> FALSE, func |-> "op_dec"],
  [name |-> "DEC", destination |-> "LOC_CX", source |-> "LOC_NULL", is_word |-> TRUE, is_string |-> FALSE, func |-> "op_dec"],
  [name |-> "DEC", destination |-> "LOC_DX", source |-> "LOC_NULL", is_word |-> TRUE, is_string |-> FALSE, func |-> "op_dec"],
  [name |-> "DEC", destination |-> "LOC_BX", source |-> "LOC_NULL", is_word |-> TRUE, is_string |-> FALSE, func |-> "op_dec"],
  [name |-> "DEC", destination |-> "LOC_SP", source |-> "LOC_NULL", is_word |-> TRUE, is_string |-> FALSE, func |-> "op_dec"],
  [name |-> "DEC", destination |-> "LOC_BP", source |-> "LOC_NULL", is_word |-> TRUE, is_string |-> FALSE, func |-> "op_dec"],
  [name |-> "DEC", destination |-> "LOC_SI", source |-> "LOC_NULL", is_word |-> TRUE, is_string |-> FALSE, func |-> "op_dec"],
  [name |-> "DEC", destination |-> "LOC_DI", source |-> "LOC_NULL", is_word |-> TRUE, is_string |-> FALSE, func |-> "op_dec"],
  [name |-> "PUSH", destination |-> "LOC_AX", source |-> "LOC_NULL", is_word |-> TRUE, is_string |-> FALSE, func |-> "op_push"],
  [name |-> "PUSH", destination |-> "LOC_CX", source |-> "LOC_NULL", is_word |-> TRUE, is_string |-> FALSE, func |-> "op_push"],
  [name |-> "PUSH", destination |-> "LOC_DX", source |-> "LOC_NULL", is_word |-> TRUE, is_string |-> FALSE, func |-> "op_push"],
  [name |-> "PUSH", destination |-> "LOC_BX", source |-> "LOC_NULL", is_word |-> TRUE, is_string |-> FALSE, func |-> "op_push"],
  [name |-> "PUSH", destination |-> "LOC_SP", source |-> "LOC_NULL", is_word |-> TRUE, is_string |-> FALSE, func |-> "op_push"],
  [name |-> "PUSH", destination |-> "LOC_BP", source |-> "LOC_NULL", is_word |-> TRUE, is_string |-> FALSE, func |-> "op_push"],
  [name |-> "PUSH", destination |-> "LOC_SI", source |-> "LOC_NULL", is_word |-> TRUE, is_string |-> FALSE, func |-> "op_push"],
  [name |-> "PUSH", destination |-> "LOC_DI", source |-> "LOC_NULL", is_word |-> TRUE, is_string |-> FALSE, func |-> "op_push"],
  [name |-> "POP", destination |-> "LOC_AX", source |-> "LOC_NULL", is_word |-> TRUE, is_string |-> FALSE, func |-> "op_pop"],
  [name |-> "POP", destination |-> "LOC_CX", source |-> "LOC_NULL", is_word |-> TRUE, is_string |-> FALSE, func |-> "op_pop"],
  [name |-> "POP", destination |-> "LOC_DX", source |-> "LOC_NULL", is_word |-> TRUE, is_string |-> FALSE, func |-> "op_pop"],
  [name |-> "POP", destination |-> "LOC_BX", source |-> "LOC_NULL", is_word |-> TRUE, is_string |-> FALSE, func |-> "op_pop"],
  [name |-> "POP", destination |-> "LOC_SP", source |-> "LOC_NULL", is_word |-> TRUE, is_string |-> FALSE, func |-> "op_pop"],
  [name |-> "POP", destination |-> "LOC_BP", source |-> "LOC_NULL", is_word |-> TRUE, is_string |-> FALSE, func |-> "op_pop"],
  [name |-> "POP", destination |-> "LOC_SI", source |-> "LOC_NULL", is_word |-> TRUE, is_string |-> FALSE, func |-> "op_pop"],
  [name |-> "POP", destination |-> "LOC_DI", source |-> "LOC_NULL", is_word |-> TRUE, is_string |-> FALSE, func |-> "op_pop"],
  [name |-> "ILLEG.", destination |-> "LOC_NULL", source |-> "LOC_NULL", is_word |-> TRUE, is_string |-> FALSE, func |-> "NULL"],
  [name |-> "ILLEG.", destination |-> "LOC_NULL", source |-> "LOC_NULL", is_word |-> TRUE, is_string |-> FALSE, func |-> "NULL"],
  [name |-> "ILLEG.", destination |-> "LOC_NULL", source |-> "LOC_NULL", is_word |-> TRUE, is_string |-> FALSE, func |-> "NULL"],
  [name |-> "ILLEG.", destination |-> "LOC_NULL", source |-> "LOC_NULL", is_word |-> TRUE, is_string |-> FALSE, func |-> "NULL"],
  [name |-> "ILLEG.", destination |-> "LOC_NULL", source |-> "LOC_NULL", is_word |-> TRUE, is_string |-> FALSE, func |-> "NULL"],
  [name |-> "ILLEG.", destination |-> "LOC_NULL", source |-> "LOC_NULL", is_word |-> TRUE, is_string |-> FALSE, func |-> "NULL"],
  [name |-> "ILLEG.", destination |-> "LOC_NULL", source |-> "LOC_NULL", is_word |-> TRUE, is_string |-> FALSE, func |-> "NULL"],
  [name |-> "ILLEG.", destination |-> "LOC_NULL", source |-> "LOC_NULL", is_word |-> TRUE, is_string |-> FALSE, func |-> "NULL"],
  [name |-> "ILLEG.", destination |-> "LOC_NULL", source |-> "LOC_NULL", is_word |-> TRUE, is_string |-> FALSE, func |-> "NULL"],
  [name |-> "ILLEG.", destination |-> "LOC_NULL", source |-> "LOC_NULL", is_word |-> TRUE, is_string |-> FALSE, func |-> "NULL"],
  [name |-> "ILLEG.", destination |-> "LOC_NULL", source |-> "LOC_NULL", is_word |-> TRUE, is_string |-> FALSE, func |-> "NULL"],
  [name |-> "ILLEG.", destination |-> "LOC_NULL", source |-> "LOC_NULL", is_word |-> TRUE, is_string |-> FALSE, func |-> "NULL"],
  [name |-> "ILLEG.", destination |-> "LOC_NULL", source |-> "LOC_NULL", is_word |-> TRUE, is_string |-> FALSE, func |-> "NULL"],
  [name |-> "ILLEG.", destination |-> "LOC_NULL", source |-> "LOC_NULL", is_word |-> TRUE, is_string |-> FALSE, func |-> "NULL"],
  [name |-> "ILLEG.", destination |-> "LOC_NULL", source |-> "LOC_NULL", is_word |-> TRUE, is_string |-> FALSE, func |-> "NULL"],
  [name |-> "ILLEG.", destination |-> "LOC_NULL", source |-> "LOC_NULL", is_word |-> TRUE, is_string |-> FALSE, func |-> "NULL"],
  [name |-> "JO", destination |-> "LOC_NULL", source |-> "LOC_IMM", is_word |-> FALSE, is_string |-> FALSE, func |-> "op_jo"],
  [name |-> "JNO", destination |-> "LOC_NULL", source |-> "LOC_IMM", is_word |-> FALSE, is_string |-> FALSE, func |-> "op_jno"],
  [name |-> "JB", destination |-> "LOC_NULL", source |-> "LOC_IMM", is_word |-> FALSE, is_string |-> FALSE, func |-> "op_jb"],
  [name |-> "JAE", destination |-> "LOC_NULL", source |-> "LOC_IMM", is_word |-> FALSE, is_string |-> FALSE, func |-> "op_jae"],
  [name |-> "JE", destination |-> "LOC_NULL", source |-> "LOC_IMM", is_word |-> FALSE, is_string |-> FALSE, func |-> "op_je"],
  [name |-> "JNE", destination |-> "LOC_NULL", source |-> "LOC_IMM", is_word |-> FALSE, is_string |-> FALSE, func |-> "op_jne"],
  [name |-> "JBE", destination |-> "LOC_NULL", source |-> "LOC_IMM", is_word |-> FALSE, is_string |-> FALSE, func |-> "op_jbe"],
  [name |-> "JA", destination |-> "LOC_NULL", source |-> "LOC_IMM", is_word |-> FALSE, is_string |-> FALSE, func |-> "op_ja"],
  [name |-> "JS", destination |-> "LOC_NULL", source |-> "LOC_IMM", is_word |-> FALSE, is_string |-> FALSE, func |-> "op_js"],
  [name |-> "JNS", destination |-> "LOC_NULL", source |-> "LOC_IMM", is_word |-> FALSE, is_string |-> FALSE, func |-> "op_jns"],
  [name |-> "JP", destination |-> "LOC_NULL", source |-> "LOC_IMM", is_word |-> FALSE, is_string |-> FALSE, func |-> "op_jp"],
  [name |-> "JNP", destination |-> "LOC_NULL", source |-> "LOC_IMM", is_word |-> FALSE, is_string |-> FALSE, func |-> "op_jnp"],
  [name |-> "JL", destination |-> "LOC_NULL", source |-> "LOC_IMM", is_word |-> FALSE, is_string |-> FALSE, func |-> "op_jl"],
  [name |-> "JGE", destination |-> "LOC_NULL", source |-> "LOC_IMM", is_word |-> FALSE, is_string |-> FALSE, func |-> "op_jge"],
  [name |-> "JLE", destination |-> "LOC_NULL", source |-> "LOC_IMM", is_word |-> FALSE, is_string |-> FALSE, func |-> "op_jle"],
  [name |-> "JG", destination |-> "LOC_NULL", source |-> "LOC_IMM", is_word |-> FALSE, is_string |-> FALSE, func |-> "op_jg"],
  [name |-> "IMM", destination |-> "LOC_RM", source |-> "LOC_IMM", is_word |-> FALSE, is_string |-> FALSE, func |-> "op_imm"],
  [name |-> "IMM", destination |-> "LOC_RM", source |-> "LOC_IMM", is_word |-> TRUE, is_string |-> FALSE, func |-> "op_imm"],
  [name |-> "IMM", destination |-> "LOC_RM", source |-> "LOC_IMM", is_word |-> FALSE, is_string |-> FALSE, func |-> "op_imm"],
  [name |-> "IMM", destination |-> "LOC_RM", source |-> "LOC_IMM8", is_word |-> TRUE, is_string |-> FALSE, func |-> "op_imm"],
  [name |-> "TEST", destination |-> "LOC_REG", source |-> "LOC_RM", is_word |-> FALSE, is_string |-> FALSE, func |-> "op_test"],
  [name |-> "TEST", destination |-> "LOC_REG", source |-> "LOC_RM", is_word |-> TRUE, is_string |-> FALSE, func |-> "op_test"],
  [name |-> "XCHG", destination |-> "LOC_REG", source |-> "LOC_RM", is_word |-> FALSE, is_string |-> FALSE, func |-> "op_xchg"],
  [name |-> "XCHG", destination |-> "LOC_REG", source |-> "LOC_RM", is_word |-> TRUE, is_string |-> FALSE, func |-> "op_xchg"],
  [name |-> "MOV", destination |-> "LOC_RM", source |-> "LOC_REG", is_word |-> FALSE, is_string |-> FALSE, func |-> "op_mov"],
  [name |-> "MOV", destination |-> "LOC_RM", source |-> "LOC_REG", is_word |-> TRUE, is_string |-> FALSE, func |-> "op_mov"],
  [name |-> "MOV", destination |-> "LOC_REG", source |-> "LOC_RM", is_word |-> FALSE, is_string |-> FALSE, func |-> "op_mov"],
  [name |-> "MOV", destination |-> "LOC_REG", source |-> "LOC_RM", is_word |-> TRUE, is_string |-> FALSE, func |-> "op_mov"],
  [name |-> "MOV", destination |-> "LOC_RM", source |-> "LOC_SREG", is_word |-> TRUE, is_string |-> FALSE, func |-> "op_mov"],
  [name |-> "LEA", destination |-> "LOC_REG", source |-> "LOC_RM", is_word |-> TRUE, is_string |-> FALSE, func |-> "op_lea"],
  [name |-> "MOV", destination |-> "LOC_SREG", source |-> "LOC_RM", is_word |-> TRUE, is_string |-> FALSE, func |-> "op_mov"],
  [name |-> "POP", destination |-> "LOC_RM", source |-> "LOC_NULL", is_word |-> TRUE, is_string |-> FALSE, func |-> "op_pop"],
  [name |-> "NOP", destination |-> "LOC_AX", source |-> "LOC_AX", is_word |-> TRUE, is_string |-> FALSE, func |-> "op_xchg"],
  [name |-> "XCHG", destination |-> "LOC_CX", source |-> "LOC_AX", is_word |-> TRUE, is_string |-> FALSE, func |-> "op_xchg"],
  [name |-> "XCHG", destination |-> "LOC_DX", source |-> "LOC_AX", is_word |-> TRUE, is_string |-> FALSE, func |-> "op_xchg"],
  [name |-> "XCHG", destination |-> "LOC_BX", source |-> "LOC_AX", is_word |-> TRUE, is_string |-> FALSE, func |-> "op_xchg"],
  [name |-> "XCHG", destination |-> "LOC_SP", source |-> "LOC_AX", is_word |-> TRUE, is_string |-> FALSE, func |-> "op_xchg"],
  [name |-> "XCHG", destination |-> "LOC_BP", source |-> "LOC_AX", is_word |-> TRUE, is_string |-> FALSE, func |-> "op_xchg"],
  [name |-> "XCHG", destination |-> "LOC_SI", source |-> "LOC_AX", is_word |-> TRUE, is_string |-> FALSE, func |-> "op_xchg"],
  [name |-> "XCHG", destination |-> "LOC_DI", source |-> "LOC_AX", is_word |-> TRUE, is_string |-> FALSE, func |-> "op_xchg"],
  [name |-> "CBW", destination |-> "LOC_NULL", source |-> "LOC_NULL", is_word |-> TRUE, is_string |-> FALSE, func |-> "op_cbw"],
  [name |-> "CWD", destination |-> "LOC_NULL", source |-> "LOC_NULL", is_word |-> TRUE, is_string |-> FALSE, func |-> "op_cwd"],
  [name |-> "CALL", destination |-> "LOC_NULL", source |-> "LOC_SEGOFF", is_word |-> TRUE, is_string |-> FALSE, func |-> "op_callfar"],
  [name |-> "WAIT", destination |-> "LOC_NULL", source |-> "LOC_NULL", is_word |-> FALSE, is_string |-> FALSE, func |-> "op_wait"],
  [name |-> "PUSHF", destination |-> "LOC_NULL", source |-> "LOC_NULL", is_word |-> FALSE, is_string |-> FALSE, func |-> "op_pushf"],
  [name |-> "POPF", destination |-> "LOC_NULL", source |-> "LOC_NULL", is_word |-> FALSE, is_string |-> FALSE, func |-> "op_popf"],
  [name |-> "SAHF", destination |-> "LOC_NULL", source |-> "LOC_NULL", is_word |-> FALSE, is_string |-> FALSE, func |-> "op_sahf"],
  [name |-> "LAHF", destination |-> "LOC_NULL", source |-> "LOC_NULL", is_word |-> FALSE, is_string |-> FALSE, func |-> "op_lahf"],
  [name |-> "MOV", destination |-> "LOC_AL", source |-> "LOC_ADDR", is_word |-> FALSE, is_string |-> FALSE, func |-> "op_mov"],
  [name |-> "MOV", destination |-> "LOC_AX", source |-> "LOC_ADDR", is_word |-> TRUE, is_string |-> FALSE, func |-> "op_mov"],
  [name |-> "MOV", destination |-> "LOC_ADDR", source |-> "LOC_AL", is_word |-> FALSE, is_string |-> FALSE, func |-> "op_mov"],
  [name |-> "MOV", destination |-> "LOC_ADDR", source |-> "LOC_AX", is_word |-> TRUE, is_string |-> FALSE, func |-> "op_mov"],
  [name |-> "MOVSB", destination |-> "LOC_STRDST", source |-> "LOC_STRSRC", is_word |-> FALSE, is_string |-> TRUE, func |-> "op_mov"],
  [name |-> "MOVSW", destination |-> "LOC_STRDST", source |-> "LOC_STRSRC", is_word |-> TRUE, is_string |-> TRUE, func |-> "op_mov"],
  [name |-> "CMPSB", destination |-> "LOC_STRSRC", source |-> "LOC_STRDST", is_word |-> FALSE, is_string |-> TRUE, func |-> "op_cmp"],
  [name |-> "CMPSW", destination |-> "LOC_STRSRC", source |-> "LOC_STRDST", is_word |-> TRUE, is_string |-> TRUE, func |-> "op_cmp"],
  [name |-> "TEST", destination |-> "LOC_AL", source |-> "LOC_IMM", is_word |-> FALSE, is_string |-> FALSE, func |-> "op_test"],
  [name |-> "TEST", destination |-> "LOC_AX", source |-> "LOC_IMM", is_word |-> TRUE, is_string |-> FALSE, func |-> "op_test"],
  [name |-> "STOSB", destination |-> "LOC_STRDST", source |-> "LOC_AL", is_word |-> FALSE, is_string |-> TRUE, func |-> "op_mov"],
  [name |-> "STOSW", destination |-> "LOC_STRDST", source |-> "LOC_AX", is_word |-> TRUE, is_string |-> TRUE, func |-> "op_mov"],
  [name |-> "LODSB", destination |-> "LOC_AL", source |-> "LOC_STRSRC", is_word |-> FALSE, is_string |-> TRUE, func |-> "op_mov"],
  [name |-> "LODSW", destination |-> "LOC_AX", source |-> "LOC_STRSRC", is_word |-> TRUE, is_string |-> TRUE, func |-> "op_mov"],
  [name |-> "SCASB", destination |-> "LOC_AL", source |-> "LOC_STRDST", is_word |-> FALSE, is_string |-> TRUE, func |-> "op_cmp"],
  [name |-> "SCASB", destination |-> "LOC_AL", source |-> "LOC_STRDST", is_word |-> TRUE, is_string |-> TRUE, func |-> "op_cmp"],
  [name |-> "MOV", destination |-> "LOC_AL", source |-> "LOC_IMM", is_word |-> FALSE, is_string |-> FALSE, func |-> "op_mov"],
  [name |-> "MOV", destination |-> "LOC_CL", source |-> "LOC_IMM", is_word |-> FALSE, is_string |-> FALSE, func |-> "op_mov"],
  [name |-> "MOV", destination |-> "LOC_DL", source |-> "LOC_IMM", is_word |-> FALSE, is_string |-> FALSE, func |-> "op_mov"],
  [name |-> "MOV", destination |-> "LOC_BL", source |-> "LOC_IMM", is_word |-> FALSE, is_string |-> FALSE, func |-> "op_mov"],
  [name |-> "MOV", destination |-> "LOC_AH", source |-> "LOC_IMM", is_word |-> FALSE, is_string |-> FALSE, func |-> "op_mov"],
  [name |-> "MOV", destination |-> "LOC_CH", source |-> "LOC_IMM", is_word |-> FALSE, is_string |-> FALSE, func |-> "op_mov"],
  [name |-> "MOV", destination |-> "LOC_DH", source |-> "LOC_IMM", is_word |-> FALSE, is_string |-> FALSE, func |-> "op_mov"],
  [name |-> "MOV", destination |-> "LOC_BH", source |-> "LOC_IMM", is_word |-> FALSE, is_string |-> FALSE, func |-> "op_mov"],
  [name |-> "MOV", destination |-> "LOC_AX", source |-> "LOC_IMM", is_word |-> TRUE, is_string |-> FALSE, func |-> "op_mov"],
  [name |-> "MOV", destination |-> "LOC_CX", source |-> "LOC_IMM", is_word |-> TRUE, is_string |-> FALSE, func |-> "op_mov"],
  [name |-> "MOV", destination |-> "LOC_DX", source |-> "LOC_IMM", is_word |-> TRUE, is_string |-> FALSE, func |-> "op_mov"],
  [name |-> "MOV", destination |-> "LOC_BX", source |-> "LOC_IMM", is_word |-> TRUE, is_string |-> FALSE, func |-> "op_mov"],
  [name |-> "MOV", destination |-> "LOC_SP", source |-> "LOC_IMM", is_word |-> TRUE, is_string |-> FALSE, func |-> "op_mov"],
  [name |-> "MOV", destination |-> "LOC_BP", source |-> "LOC_IMM", is_word |-> TRUE, is_string |-> FALSE, func |-> "op_mov"],
  [name |-> "MOV", destination |-> "LOC_SI", source |-> "LOC_IMM", is_word |-> TRUE, is_string |-> FALSE, func |-> "op_mov"],
  [name |-> "MOV", destination |-> "LOC_DI", source |-> "LOC_IMM", is_word |-> TRUE, is_string |-> FALSE, func |-> "op_mov"],
  [name |-> "ILLEG.", destination |-> "LOC_NULL", source |-> "LOC_NULL", is_word |-> TRUE, is_string |-> FALSE, func |-> "NULL"],
  [name |-> "ILLEG.", destination |-> "LOC_NULL", source |-> "LOC_NULL", is_word |-> TRUE, is_string |-> FALSE, func |-> "NULL"],
  [name |-> "RET", destination |-> "LOC_NULL", source |-> "LOC_IMM", is_word |-> TRUE, is_string |-> FALSE, func |-> "op_retnear"],
  [name |-> "RET", destination |-> "LOC_NULL", source |-> "LOC_NULL", is_word |-> TRUE, is_string |-> FALSE, func |-> "op_retnear"],
  [name |-> "LES", destination |-> "LOC_REG", source |-> "LOC_RM", is_word |-> TRUE, is_string |-> FALSE, func |-> "op_les"],
  [name |-> "LDS", destination |-> "LOC_REG", source |-> "LOC_RM", is_word |-> TRUE, is_string |-> FALSE, func |-> "op_lds"],
  [name |-> "MOV", destination |-> "LOC_RM", source |-> "LOC_IMM", is_word |-> FALSE, is_string |-> FALSE, func |-> "op_mov"],
  [name |-> "MOV", destination |-> "LOC_RM", source |-> "LOC_IMM", is_word |-> TRUE, is_string |-> FALSE, func |-> "op_mov"],
  [name |-> "ILLEG.", destination |-> "LOC_NULL", source |-> "LOC_NULL", is_word |-> TRUE, is_string |-> FALSE, func |-> "NULL"],
  [name |-> "ILLEG.", destination |-> "LOC_NULL", source |-> "LOC_NULL", is_word |-> TRUE, is_string |-> FALSE, func |-> "NULL"],
  [name |-> "RET", destination |-> "LOC_NULL", source |-> "LOC_IMM", is_word |-> TRUE, is_string |-> FALSE, func |-> "op_retfar"],
  [name |-> "RET", destination |-> "LOC_NULL", source |-> "LOC_NULL", is_word |-> TRUE, is_string |-> FALSE, func |-> "op_retfar"]
  >>

imm_table ==
  <<
  [name |-> "ADD", destination |-> "LOC_NULL", source |-> "LOC_NULL", is_word |-> FALSE, is_string |-> FALSE, func |-> "op_add"],
  [name |-> "OR", destination |-> "LOC_NULL", source |-> "LOC_NULL", is_word |-> FALSE, is_string |-> FALSE, func |-> "op_or"],
  [name |-> "ADC", destination |-> "LOC_NULL", source |-> "LOC_NULL", is_word |-> FALSE, is_string |-> FALSE, func |-> "op_adc"],
  [name |-> "SBB", destination |-> "LOC_NULL", source |-> "LOC_NULL", is_word |-> FALSE, is_string |-> FALSE, func |-> "op_sbb"],
  [name |-> "AND", destination |-> "LOC_NULL", source |-> "LOC_NULL", is_word |-> FALSE, is_string |-> FALSE, func |-> "op_and"],
  [name |-> "SUB", destination |-> "LOC_NULL", source |-> "LOC_NULL", is_word |-> FALSE, is_string |-> FALSE, func |-> "op_sub"],
  [name |-> "XOR", destination |-> "LOC_NULL", source |-> "LOC_NULL", is_word |-> FALSE, is_string |-> FALSE, func |-> "op_xor"],
  [name |-> "CMP", destination |-> "LOC_NULL", source |-> "LOC_NULL", is_word |-> FALSE, is_string |-> FALSE, func |-> "op_cmp"]
  >>
(***************************************************************************)
(* Host pointers.  A location's address is either a physical address       *)
(* (virtual = TRUE) or a host pointer into struct cpu8086.  Host pointers  *)
(* are numbers kept apart from the 20-bit physical addresses: RegBase is   *)
(* &cpu->ax, and the sixteen uint16_t that follow it in the struct are     *)
(* ax..ds, ip, flags, q[0], q[1] (cpu8086.h 94-154).  ImmPtr is            *)
(* &cpu->immediate.  Every other number used as a host pointer (0 from     *)
(* calloc, or a physical address left in cpu->rm) is a wild pointer, and   *)
(* an access through it is undefined behaviour: the process dies           *)
(* (outcome -1) or the read yields some value.  cpu->immediate is kept as  *)
(* its two 16-bit halves, low half first.                                  *)
(***************************************************************************)
RegBase == 16777216
ImmPtr == 16777280
UbValues == {0, 513}
UbOutcomes == {-1} \cup UbValues

IsRegPtr(p) == p >= RegBase /\ p <= RegBase + 31
IsImmPtr(p) == p >= ImmPtr /\ p <= ImmPtr + 3
IsWild(p, n) == ~(IsRegPtr(p) /\ IsRegPtr(p + n - 1)) /\ ~(IsImmPtr(p) /\ IsImmPtr(p + n - 1))

\* the uint16_t at index i counted from cpu->ax
StructWord(s, i) ==
  IF i < REGISTER_COUNT THEN s.r[i]
  ELSE IF i = 12 THEN s.ip
  ELSE IF i = 13 THEN s.flags
  ELSE s.q[i - 14]

StructWordPut(s, i, v) ==
  IF i < REGISTER_COUNT THEN [s EXCEPT !.r[i] = v]
  ELSE IF i = 12 THEN [s EXCEPT !.ip = v]
  ELSE IF i = 13 THEN [s EXCEPT !.flags = v]
  ELSE [s EXCEPT !.q[i - 14] = v]

\* little-endian host: the byte at an even offset is the low byte
HostByte(s, p) ==
  IF IsRegPtr(p)
  THEN LET o == p - RegBase
           w == StructWord(s, o \div 2)
       IN IF o % 2 = 0 THEN w % 256 ELSE (w \div 256) % 256
  ELSE LET k == p - ImmPtr
       IN (s.immediate[k \div 2] \div Pow2(8 * (k % 2))) % 256

HostBytePut(s, p, b) ==
  IF IsRegPtr(p)
  THEN LET o == p - RegBase
           w == StructWord(s, o \div 2)
       IN StructWordPut(s, o \div 2,
            IF o % 2 = 0 THEN (w \div 256) * 256 + b ELSE (w % 256) + 256 * b)
  ELSE LET k == p - ImmPtr
           w == s.immediate[k \div 2]
       IN [s EXCEPT !.immediate[k \div 2] =
                      IF k % 2 = 0 THEN (w \div 256) * 256 + b ELSE (w % 256) + 256 * b]

cpu8086_reg_word(reg) == RegBase + 2 * reg

cpu8086_reg_byte(reg) == RegBase + (reg % 4) * 2 + ((reg \div 4) % 2) * 4

\* *cpu8086_reg_word(cpu, reg), read as a value
RegWord(s, reg) == StructWord(s, reg)

\* the local op of cpu8086_clock, &op_table[cpu->opcode_byte]; it is kept with
\* the state (s.op) from the tick that reads the opcode on, and every handler
\* receives it as its first argument
op_entry(s) == s.op

NullOp ==
  [name |-> "", destination |-> "LOC_NULL", source |-> "LOC_NULL",
   is_word |-> FALSE, is_string |-> FALSE, func |-> "NULL"]

Charge(s, n) == [s EXCEPT !.cycles = U8(s.cycles + n)]

(***************************************************************************)
(* loc_read_* / loc_write_* (427-481).  u is the outcome of an access      *)
(* through a wild pointer.                                                 *)
(***************************************************************************)
loc_read_byte(s, loc, u) ==
  IF loc.virtual THEN bus_read_byte(s.memory, loc.address)
  ELSE IF IsWild(loc.address, 1) THEN u % 256
  ELSE HostByte(s, loc.address)

loc_read_word(s, loc, u) ==
  IF loc.virtual THEN bus_read_short(s.memory, loc.address)
  ELSE IF IsWild(loc.address, 2) THEN u % 65536
  ELSE HostByte(s, loc.address) + 256 * HostByte(s, loc.address + 1)

loc_read(s, loc, u) ==
  IF op_entry(s).is_word THEN loc_read_word(s, loc, u) ELSE loc_read_byte(s, loc, u)

\* the cycles a word access adds at an odd physical address (439-440, 459-460)
OddCharge(s, loc) ==
  IF op_entry(s).is_word /\ loc.virtual /\ loc.address % 2 = 1 THEN Charge(s, 4) ELSE s

loc_write_byte(s, loc, data) ==
  IF loc.virtual THEN [s EXCEPT !.memory = bus_write_byte(s.memory, loc.address, data)]
  ELSE IF IsWild(loc.address, 1) THEN s
  ELSE HostBytePut(s, loc.address, data % 256)

loc_write_word(s, loc, data) ==
  IF loc.virtual
  THEN LET t == IF loc.address % 2 = 1 THEN Charge(s, 4) ELSE s
       IN [t EXCEPT !.memory = bus_write_short(s.memory, loc.address, data)]
  ELSE IF IsWild(loc.address, 2) THEN s
  ELSE HostBytePut(HostBytePut(s, loc.address, data % 256),
                   loc.address + 1, (data \div 256) % 256)

loc_write(s, loc, data) ==
  IF op_entry(s).is_word THEN loc_write_word(s, loc, data) ELSE loc_write_byte(s, loc, data)

\* does an access of the current width through loc go through a wild pointer?
WildAccess(s, loc) ==
  ~loc.virtual /\ IsWild(loc.address, IF op_entry(s).is_word THEN 2 ELSE 1)

\* a faulty pop, which does not wrap SP at 16 bits
cpu8086_pop_unwrapped(s) == [s EXCEPT !.r[SP] = s.r[SP] + 2]

(***************************************************************************)
(* The stack (483-494).                                                    *)
(***************************************************************************)
cpu8086_push(s, word) ==
  LET sp == U16(s.r[SP] + 65534)
  IN [s EXCEPT !.r[SP] = sp,
               !.memory = bus_write_short(s.memory, s.r[SS] * 16 + sp, word)]

\* the word cpu8086_pop returns, and the state it leaves
PopValue(s) == bus_read_short(s.memory, s.r[SS] * 16 + s.r[SP])
cpu8086_pop(s) == [s EXCEPT !.r[SP] = U16(s.r[SP] + 2)]

(***************************************************************************)
(* The prefetch queue (512-537).  g_live is a history variable: the        *)
(* (slot, half) positions that hold a byte the BIU fetched and that the    *)
(* read cursor has neither delivered nor passed, nor a flush discarded.    *)
(* g_deq lists, for this tick, each dequeued byte with whether it was such *)
(* a byte.  g_jumped tells that cpu8086_jump ran in this tick, and         *)
(* g_target is the physical address of its CS:IP until the next fetch.     *)
(* g_bytes lists the bytes dequeued for the current instruction, from its  *)
(* opcode byte on, and g_fresh tells that each of them was in g_live.      *)
(* g_pre lists the prefix bytes dequeued since the last opcode byte,       *)
(* g_opre those that came before the opcode byte now held, and g_clean     *)
(* tells that the first byte of the instruction was dequeued with no       *)
(* prefix and no repeat recorded.                                          *)
(***************************************************************************)
\* a faulty variant: the low byte of the word whatever the half-word cursor
DequeueByte_low(s) == s.q[s.q_r] % 256

DequeueByte(s) == (s.q[s.q_r] \div Pow2(s.hl * 8)) % 256

cpu8086_prefetch_dequeue(s) ==
  LET q_r == IF s.hl = 1 THEN (s.q_r + 1) % 3 ELSE s.q_r
  IN [s EXCEPT !.q_r = q_r,
               !.mt = IF s.hl = 1 THEN q_r = s.q_w ELSE s.mt,
               !.hl = 1 - s.hl,
               !.current_ip = U16(s.current_ip + 1),
               !.g_deq = Append(s.g_deq,
                   [byte |-> DequeueByte(s), live |-> <<s.q_r, s.hl>> \in s.g_live,
                    at |-> Mask20(s.r[CS] * 16 + s.current_ip), n |-> s.g_count]),
               !.g_count = s.g_count + 1,
               !.g_bytes = Append(s.g_bytes, DequeueByte(s)),
               !.g_fresh = s.g_fresh /\ <<s.q_r, s.hl>> \in s.g_live,
               !.g_live = IF s.hl = 1
                          THEN {c \in s.g_live : c[1] # s.q_r}
                          ELSE s.g_live \ {<<s.q_r, s.hl>>}]

cpu8086_jump(s, cs, ip) ==
  [s EXCEPT !.hl = 0,
            !.mt = FALSE,
            !.q_r = s.q_w,
            !.biu_prefetch_cycles =
                IF s.biu_prefetch_cycles # 3 THEN U8(s.biu_prefetch_cycles + 4)
                ELSE s.biu_prefetch_cycles,
            !.r[CS] = cs,
            !.ip = ip,
            !.current_ip = ip,
            !.g_jumped = TRUE,
            !.g_jumps = TRUE,
            !.g_count = 0,
            !.g_target = Mask20(cs * 16 + ip),
            !.g_live = {}]

(***************************************************************************)
(* loc_set (539-643).  LOC_IMM and LOC_IMM8 share the LOC_RM case;         *)
(* LOC_STRSRC and LOC_STRDST have no break and run on into LOC_NULL.       *)
(***************************************************************************)
LocIndex(type) ==
  CASE type = "LOC_AX" -> 0 [] type = "LOC_CX" -> 1 [] type = "LOC_DX" -> 2
    [] type = "LOC_BX" -> 3 [] type = "LOC_SP" -> 4 [] type = "LOC_BP" -> 5
    [] type = "LOC_SI" -> 6 [] type = "LOC_DI" -> 7 [] type = "LOC_ES" -> 8
    [] type = "LOC_CS" -> 9 [] type = "LOC_SS" -> 10 [] type = "LOC_DS" -> 11
    [] type = "LOC_AL" -> 12 [] type = "LOC_CL" -> 13 [] type = "LOC_DL" -> 14
    [] type = "LOC_BL" -> 15 [] type = "LOC_AH" -> 16 [] type = "LOC_CH" -> 17
    [] type = "LOC_DH" -> 18 [] type = "LOC_BH" -> 19

ModField(s) == (s.modrm_byte \div 64) % 4
RegField(s) == (s.modrm_byte \div 8) % 8
RmField(s) == s.modrm_byte % 8

\* ES + (prefix_g2 - PREFIX_G2_ES) / 8
\* a faulty choice, which does not look at the segment-override prefix
PrefixSegment_default(s, default) == default

PrefixSegment(s, default) ==
  IF s.prefix_g2 # PREFIX_G2_NONE THEN ES + ((s.prefix_g2 - PREFIX_G2_ES) \div 8) ELSE default

loc_set(s, loc, type) ==
  CASE type \in {"LOC_AX", "LOC_CX", "LOC_DX", "LOC_BX", "LOC_SP", "LOC_BP", "LOC_SI", "LOC_DI"} ->
         [type |-> IF type = "LOC_AX" THEN "DECODED_ACCUMULATOR" ELSE "DECODED_REGISTER",
          address |-> cpu8086_reg_word(LocIndex(type)), virtual |-> FALSE]
    [] type \in {"LOC_ES", "LOC_CS", "LOC_SS", "LOC_DS"} ->
         [type |-> "DECODED_SEGREG",
          address |-> cpu8086_reg_word(LocIndex(type)), virtual |-> FALSE]
    [] type \in {"LOC_AL", "LOC_CL", "LOC_DL", "LOC_BL", "LOC_AH", "LOC_CH", "LOC_DH", "LOC_BH"} ->
         [type |-> IF type \in {"LOC_AL", "LOC_AH"} THEN "DECODED_ACCUMULATOR" ELSE "DECODED_REGISTER",
          address |-> cpu8086_reg_byte(LocIndex(type) - LocIndex("LOC_AL")), virtual |-> FALSE]
    [] type \in {"LOC_IMM", "LOC_IMM8", "LOC_RM"} ->
         [type |-> IF ModField(s) # MOD_REG THEN "DECODED_MEMORY"
                   ELSE IF s.modrm_is_segreg THEN "DECODED_SEGREG" ELSE "DECODED_REGISTER",
          address |-> s.rm, virtual |-> ModField(s) # MOD_REG]
    [] type \in {"LOC_REG", "LOC_SREG"} ->
         [type |-> "DECODED_REGISTER", address |-> s.reg, virtual |-> FALSE]
    [] type = "LOC_ADDR" ->
         [type |-> "DECODED_MEMORY", address |-> s.immediate[0] + 65536 * s.immediate[1],
          virtual |-> TRUE]
    [] type = "LOC_SEGOFF" ->
         [type |-> "DECODED_IMMEDIATE", address |-> ImmPtr, virtual |-> FALSE]
    [] type \in {"LOC_STRSRC", "LOC_STRDST"} ->
         \* STRSRC's own address is overwritten by the STRDST case it falls into
         [type |-> "DECODED_NULL", address |-> s.r[ES] * 16 + s.r[DI], virtual |-> TRUE]
    [] type = "LOC_NULL" ->
         [type |-> "DECODED_NULL", address |-> loc.address, virtual |-> loc.virtual]

(***************************************************************************)
(* Flags (645-663).                                                        *)
(***************************************************************************)
cpu8086_getflag(s, flag) == (s.flags \div flag) % 2 = 1

cpu8086_setflag(s, flag, toggle) ==
  LET has == (s.flags \div flag) % 2 = 1
  IN [s EXCEPT !.flags = IF toggle THEN (IF has THEN s.flags ELSE s.flags + flag)
                         ELSE (IF has THEN s.flags - flag ELSE s.flags)]

cpu8086_setpzs_flags(s, result, is_word) ==
  LET r16 == U16(result)
  IN cpu8086_setflag(
       cpu8086_setflag(
         cpu8086_setflag(s, FLAG_PARITY, calculate_parity(r16, is_word)),
         FLAG_ZERO, (r16 % (mask_buffer(is_word) + 1)) = 0),
       FLAG_SIGN, Bit(r16, sign_bit(is_word)) = 1)

\* a faulty version, which leaves the segment-override prefix standing
cpu8086_reset_execution_regs_keeps_g2(s) ==
  [s EXCEPT !.repeat = FALSE,
            !.prefix_g1 = PREFIX_G1_NONE,
            !.opcode_byte = OPCODE_NONE,
            !.op = NullOp,
            !.disp8_byte = DISP8_NONE,
            !.disp16_byte = DISP16_NONE,
            !.imm8_byte = IMM8_NONE,
            !.imm16_byte = IMM16_NONE,
            !.lo_segment = LO_SEGMENT_NONE,
            !.hi_segment = HI_SEGMENT_NONE,
            !.stage = "CPU8086_READY",
            !.modrm_byte = MODRM_NONE]

cpu8086_reset_execution_regs(s) ==
  [s EXCEPT !.repeat = FALSE,
            !.prefix_g1 = PREFIX_G1_NONE,
            !.prefix_g2 = PREFIX_G1_NONE,
            !.opcode_byte = OPCODE_NONE,
            !.op = NullOp,      \* op is not assigned while opcode_byte is OPCODE_NONE
            !.disp8_byte = DISP8_NONE,
            !.disp16_byte = DISP16_NONE,
            !.imm8_byte = IMM8_NONE,
            !.imm16_byte = IMM16_NONE,
            !.lo_segment = LO_SEGMENT_NONE,
            !.hi_segment = HI_SEGMENT_NONE,
            !.stage = "CPU8086_READY",
            !.modrm_byte = MODRM_NONE]

(***************************************************************************)
(* Opcode handlers (681-1838).  Each takes the state with destination and  *)
(* source resolved and returns the state it leaves.  assert(false) ends    *)
(* the process unless the build defines NDEBUG, in which case it is        *)
(* skipped.                                                                *)
(***************************************************************************)
AssertFail(s) == IF s.ndebug THEN s ELSE [s EXCEPT !.status = "abort"]

\* a cycle count from a switch, or its default: assert(false)
Finish(s, c) == IF c < 0 THEN AssertFail(s) ELSE Charge(s, c)

RECURSIVE BitAnd(_, _, _)
BitAnd(a, b, n) ==
  IF n = 0 THEN 0
  ELSE (IF a % 2 = 1 /\ b % 2 = 1 THEN 1 ELSE 0) + 2 * BitAnd(a \div 2, b \div 2, n - 1)

RECURSIVE BitOr(_, _, _)
BitOr(a, b, n) ==
  IF n = 0 THEN 0
  ELSE (IF a % 2 = 1 \/ b % 2 = 1 THEN 1 ELSE 0) + 2 * BitOr(a \div 2, b \div 2, n - 1)

RECURSIVE BitXor(_, _, _)
BitXor(a, b, n) ==
  IF n = 0 THEN 0
  ELSE (IF a % 2 # b % 2 THEN 1 ELSE 0) + 2 * BitXor(a \div 2, b \div 2, n - 1)

\* (result ^ dest) & (result ^ src) & (1 << sign_bit): one bit of each operand
OverflowBit(result, dest, src, is_word) ==
  /\ Bit(result, sign_bit(is_word)) # Bit(dest, sign_bit(is_word))
  /\ Bit(result, sign_bit(is_word)) # Bit(src, sign_bit(is_word))

\* the switch on (destination.type << 3) | source.type shared by
\* ADC, ADD, AND, OR, SBB, SUB, XOR (749-779 and its copies)
AluCycles(d, t) ==
  CASE d = "DECODED_REGISTER" /\ t = "DECODED_REGISTER" -> 3
    [] d = "DECODED_REGISTER" /\ t = "DECODED_MEMORY" -> 9
    [] d = "DECODED_MEMORY" /\ t = "DECODED_REGISTER" -> 16
    [] d = "DECODED_ACCUMULATOR" /\ t = "DECODED_IMMEDIATE" -> 4
    [] d = "DECODED_REGISTER" /\ t = "DECODED_IMMEDIATE" -> 4
    [] d = "DECODED_MEMORY" /\ t = "DECODED_IMMEDIATE" -> 17
    [] OTHER -> -1

\* the state after both operand reads (their odd-address charges)
AfterReads(s) == OddCharge(OddCharge(s, s.destination), s.source)

\* result written back (or not), then P/Z/S, CF, AF, OF in the code's order
Arith(s, dest, src, result, write, af, set_cf) ==
  LET w == op_entry(s).is_word
      s1 == IF write THEN loc_write(AfterReads(s), s.destination, U16(result))
            ELSE AfterReads(s)
      s2 == cpu8086_setpzs_flags(s1, result, w)
      s3 == IF set_cf THEN cpu8086_setflag(s2, FLAG_CARRY, result > mask_buffer(w)) ELSE s2
      s4 == cpu8086_setflag(s3, FLAG_AUXILIARY, af)
  IN cpu8086_setflag(s4, FLAG_OVERFLOW, OverflowBit(result, dest, src, w))

op_add(s, u) ==
  LET dest == loc_read(s, s.destination, u)
      src == loc_read(s, s.source, u)
      result == dest + src
  IN Finish(Arith(s, dest, src, result, TRUE, (dest % 16) + (src % 16) > 15, TRUE),
            AluCycles(s.destination.type, s.source.type))

op_adc(s, u) ==
  LET dest == loc_read(s, s.destination, u)
      src == U16(loc_read(s, s.source, u) + (IF cpu8086_getflag(s, FLAG_CARRY) THEN 1 ELSE 0))
      result == dest + src
  IN Finish(Arith(s, dest, src, result, TRUE, (dest % 16) + (src % 16) > 15, TRUE),
            AluCycles(s.destination.type, s.source.type))

\* (dest & 0xF) < ((~src + 1) & 0xF)
SubAux(dest, src) == (dest % 16) < ((16 - (src % 16)) % 16)

op_sub(s, u) ==
  LET dest == loc_read(s, s.destination, u)
      src == Neg16(loc_read(s, s.source, u))
      result == dest + src
  IN Finish(Arith(s, dest, src, result, TRUE, SubAux(dest, src), TRUE),
            AluCycles(s.destination.type, s.source.type))

op_sbb(s, u) ==
  LET dest == loc_read(s, s.destination, u)
      src == Neg16(loc_read(s, s.source, u) + (IF cpu8086_getflag(s, FLAG_CARRY) THEN 1 ELSE 0))
      result == dest + src
  IN Finish(Arith(s, dest, src, result, TRUE, SubAux(dest, src), TRUE),
            AluCycles(s.destination.type, s.source.type))

CmpCycles(d, t) ==
  CASE d = "DECODED_REGISTER" /\ t = "DECODED_REGISTER" -> 3
    [] d = "DECODED_REGISTER" /\ t = "DECODED_MEMORY" -> 9
    [] d = "DECODED_MEMORY" /\ t = "DECODED_REGISTER" -> 9
    [] d = "DECODED_ACCUMULATOR" /\ t = "DECODED_IMMEDIATE" -> 4
    [] d = "DECODED_REGISTER" /\ t = "DECODED_IMMEDIATE" -> 4
    [] d = "DECODED_MEMORY" /\ t = "DECODED_IMMEDIATE" -> 10
    [] d = "DECODED_STRING" /\ t = "DECODED_STRING" -> 22
    [] OTHER -> -1

op_cmp(s, u) ==
  LET dest == loc_read(s, s.destination, u)
      src == Neg16(loc_read(s, s.source, u))
      result == dest + src
      f == Arith(s, dest, src, result, FALSE, SubAux(dest, src), TRUE)
  IN IF s.destination.type = "DECODED_ACCUMULATOR" /\ s.source.type = "DECODED_STRING"
     THEN AssertFail(Charge(f, 15))      \* SCAS: no break before default
     ELSE Finish(f, CmpCycles(s.destination.type, s.source.type))

\* AND, OR, XOR, TEST: CF, AF, OF cleared
Logic(s, result, write) ==
  LET w == op_entry(s).is_word
      s1 == IF write THEN loc_write(AfterReads(s), s.destination, result) ELSE AfterReads(s)
      s2 == cpu8086_setpzs_flags(s1, result, w)
  IN cpu8086_setflag(cpu8086_setflag(cpu8086_setflag(s2, FLAG_CARRY, FALSE),
                                     FLAG_AUXILIARY, FALSE), FLAG_OVERFLOW, FALSE)

op_and(s, u) ==
  Finish(Logic(s, BitAnd(loc_read(s, s.destination, u), loc_read(s, s.source, u), 16), TRUE),
         AluCycles(s.destination.type, s.source.type))

op_or(s, u) ==
  Finish(Logic(s, BitOr(loc_read(s, s.destination, u), loc_read(s, s.source, u), 16), TRUE),
         AluCycles(s.destination.type, s.source.type))

op_xor(s, u) ==
  Finish(Logic(s, BitXor(loc_read(s, s.destination, u), loc_read(s, s.source, u), 16), TRUE),
         AluCycles(s.destination.type, s.source.type))

TestCycles(d, t) ==
  CASE d = "DECODED_REGISTER" /\ t = "DECODED_REGISTER" -> 3
    [] d = "DECODED_REGISTER" /\ t = "DECODED_MEMORY" -> 9
    [] d = "DECODED_ACCUMULATOR" /\ t = "DECODED_IMMEDIATE" -> 4
    [] d = "DECODED_REGISTER" /\ t = "DECODED_IMMEDIATE" -> 5
    [] d = "DECODED_MEMORY" /\ t = "DECODED_IMMEDIATE" -> 11
    [] OTHER -> -1

op_test(s, u) ==
  Finish(Logic(s, BitAnd(loc_read(s, s.destination, u), loc_read(s, s.source, u), 16), FALSE),
         TestCycles(s.destination.type, s.source.type))

IncDecCycles(s) ==
  CASE s.destination.type \in {"DECODED_ACCUMULATOR", "DECODED_REGISTER"} ->
         (IF op_entry(s).is_word THEN 2 ELSE 3)
    [] s.destination.type = "DECODED_MEMORY" -> 15
    [] OTHER -> -1

op_inc(s, u) ==
  LET dest == loc_read(s, s.destination, u)
      result == dest + 1
      s0 == OddCharge(s, s.destination)
      s1 == loc_write(s0, s.destination, U16(result))
      s2 == cpu8086_setpzs_flags(s1, result, op_entry(s).is_word)
      s3 == cpu8086_setflag(s2, FLAG_AUXILIARY, (dest % 16) + 1 > 15)
      s4 == cpu8086_setflag(s3, FLAG_OVERFLOW, OverflowBit(result, dest, 1, op_entry(s).is_word))
  IN Finish(s4, IncDecCycles(s))

op_dec(s, u) ==
  LET dest == loc_read(s, s.destination, u)
      result == U16(dest + 65535)     \* dest - 1; only bits 0..15 are used
      s0 == OddCharge(s, s.destination)
      s1 == loc_write(s0, s.destination, U16(result))
      s2 == cpu8086_setpzs_flags(s1, result, op_entry(s).is_word)
      s3 == cpu8086_setflag(s2, FLAG_AUXILIARY, (dest % 16) < 1)
      s4 == cpu8086_setflag(s3, FLAG_OVERFLOW, OverflowBit(result, dest, 65535, op_entry(s).is_word))
  IN Finish(s4, IncDecCycles(s))

(***************************************************************************)
(* Conditional jumps (1117-1324): one handler per predicate.               *)
(***************************************************************************)
JccTaken(func, s) ==
  LET cf == cpu8086_getflag(s, FLAG_CARRY)
      zf == cpu8086_getflag(s, FLAG_ZERO)
      sf == cpu8086_getflag(s, FLAG_SIGN)
      of == cpu8086_getflag(s, FLAG_OVERFLOW)
      pf == cpu8086_getflag(s, FLAG_PARITY)
  IN CASE func = "op_ja" -> ~cf /\ ~zf
       [] func = "op_jae" -> ~cf
       [] func = "op_jb" -> cf
       [] func = "op_jbe" -> cf \/ zf
       [] func = "op_je" -> zf
       [] func = "op_jg" -> (sf = of) /\ ~zf
       [] func = "op_jge" -> sf = of
       [] func = "op_jl" -> sf # of
       [] func = "op_jle" -> (sf # of) \/ zf
       [] func = "op_jne" -> ~zf
       [] func = "op_jno" -> ~of
       [] func = "op_jnp" -> ~pf
       [] func = "op_jns" -> ~sf
       [] func = "op_jo" -> of
       [] func = "op_jp" -> pf
       [] func = "op_js" -> sf

JccFuncs ==
  {"op_ja", "op_jae", "op_jb", "op_jbe", "op_je", "op_jg", "op_jge", "op_jl",
   "op_jle", "op_jne", "op_jno", "op_jnp", "op_jns", "op_jo", "op_jp", "op_js"}

op_jcc(func, s, u) ==
  LET offset == S8(loc_read(s, s.source, u))
      s0 == OddCharge(s, s.source)
  IN IF JccTaken(func, s)
     THEN Charge(Charge(cpu8086_jump(s0, s0.r[CS], U16(s0.current_ip + 65536 + offset)), 12), 4)
     ELSE Charge(s0, 4)

(***************************************************************************)
(* CALL far, RET near, RET far (876-897, 1559-1606).                       *)
(***************************************************************************)
op_callfar(s, u) ==
  LET s1 == cpu8086_push(s, s.r[CS])
      s2 == cpu8086_push(s1, s1.current_ip)
      ip == loc_read(s2, s2.source, u)
      s3 == [OddCharge(s2, s2.source) EXCEPT !.source.address = s2.source.address + 2]
      cs == loc_read(s3, s3.source, u)
      s4 == cpu8086_jump(OddCharge(s3, s3.source), cs, ip)
  IN Finish(s4, IF s4.source.type = "DECODED_IMMEDIATE" THEN 28 ELSE -1)

\* the switch on source.type of both RETs: the cycles, then sp += immediate
RetTail(s, u, c_null, c_imm) ==
  CASE s.source.type = "DECODED_NULL" -> Charge(s, c_null)
    [] s.source.type = "DECODED_IMMEDIATE" ->
         LET t == OddCharge(Charge(s, c_imm), s.source)
         IN [t EXCEPT !.r[SP] = U16(t.r[SP] + loc_read(t, t.source, u))]
    [] OTHER -> AssertFail(s)

op_retnear(s, u) ==
  LET ip == PopValue(s)
      s1 == cpu8086_pop(s)
  IN RetTail(cpu8086_jump(s1, s1.r[CS], ip), u, 8, 12)

\* a faulty far return, which takes the first word popped for CS
op_retfar_cs_first(s, u) ==
  LET cs == PopValue(s)
      s1 == cpu8086_pop(s)
      ip == PopValue(s1)
      s2 == cpu8086_pop(s1)
  IN RetTail(cpu8086_jump(s2, cs, ip), u, 18, 17)

op_retfar(s, u) ==
  LET ip == PopValue(s)
      s1 == cpu8086_pop(s)
      cs == PopValue(s1)
      s2 == cpu8086_pop(s1)
  IN RetTail(cpu8086_jump(s2, cs, ip), u, 18, 17)

(***************************************************************************)
(* MOV, XCHG, the stack instructions and the flag transfers.               *)
(***************************************************************************)
MovCycles(s) ==
  LET d == s.destination.type
      t == s.source.type
  IN CASE d = "DECODED_MEMORY" /\ t = "DECODED_ACCUMULATOR" -> 10
       [] d = "DECODED_ACCUMULATOR" /\ t = "DECODED_MEMORY" -> 10
       [] d = "DECODED_REGISTER" /\ t = "DECODED_REGISTER" -> 2
       [] d = "DECODED_SEGREG" /\ t = "DECODED_REGISTER" -> 2
       [] d = "DECODED_REGISTER" /\ t = "DECODED_SEGREG" -> 2
       [] d = "DECODED_REGISTER" /\ t = "DECODED_MEMORY" -> 8
       [] d = "DECODED_SEGREG" /\ t = "DECODED_MEMORY" -> 8
       [] d = "DECODED_MEMORY" /\ t = "DECODED_REGISTER" -> 9
       [] d = "DECODED_MEMORY" /\ t = "DECODED_SEGREG" -> 9
       [] d = "DECODED_REGISTER" /\ t = "DECODED_IMMEDIATE" -> 4
       [] d = "DECODED_ACCUMULATOR" /\ t = "DECODED_IMMEDIATE" -> 4
       [] d = "DECODED_MEMORY" /\ t = "DECODED_IMMEDIATE" -> 10
       [] d = "DECODED_STRING" /\ t = "DECODED_STRING" -> (IF s.repeat THEN 17 ELSE 18)
       [] d = "DECODED_STRING" /\ t = "DECODED_ACCUMULATOR" -> (IF s.repeat THEN 10 ELSE 11)
       [] d = "DECODED_ACCUMULATOR" /\ t = "DECODED_STRING" -> (IF s.repeat THEN 13 ELSE 12)
       [] OTHER -> -1

op_mov(s, u) ==
  LET src == loc_read(s, s.source, u)
      s1 == loc_write(OddCharge(s, s.source), s.destination, src)
  IN Finish(s1, MovCycles(s))

XchgCycles(d, t) ==
  CASE d = "DECODED_ACCUMULATOR" /\ t = "DECODED_REGISTER" -> 3
    [] d = "DECODED_REGISTER" /\ t = "DECODED_REGISTER" -> 4
    [] d = "DECODED_MEMORY" /\ t = "DECODED_REGISTER" -> 17
    [] OTHER -> -1

op_xchg(s, u) ==
  LET dest == loc_read(s, s.destination, u)
      src == loc_read(s, s.source, u)
      s1 == loc_write(AfterReads(s), s.destination, src)
      s2 == loc_write(s1, s.source, dest)
  IN Finish(s2, XchgCycles(s.destination.type, s.source.type))

op_push(s, u) ==
  LET dest == loc_read(s, s.destination, u)
      s1 == cpu8086_push(OddCharge(s, s.destination), dest)
  IN Finish(s1, CASE s.destination.type \in {"DECODED_ACCUMULATOR", "DECODED_REGISTER"} -> 11
                  [] s.destination.type = "DECODED_SEGREG" -> 10
                  [] s.destination.type = "DECODED_MEMORY" -> 16
                  [] OTHER -> -1)

op_pop(s, u) ==
  LET result == PopValue(s)
      s1 == loc_write(cpu8086_pop(s), s.destination, result)
  IN Finish(s1, CASE s.destination.type \in
                       {"DECODED_ACCUMULATOR", "DECODED_REGISTER", "DECODED_SEGREG"} -> 8
                  [] s.destination.type = "DECODED_MEMORY" -> 17
                  [] OTHER -> -1)

op_pushf(s, u) == Charge(cpu8086_push(s, s.flags), 10)

op_popf(s, u) == Charge([cpu8086_pop(s) EXCEPT !.flags = PopValue(s)], 8)

\* cpu->al, cpu->ah: the two bytes of the ax union
AL(s) == s.r[AX] % 256
AH(s) == (s.r[AX] \div 256) % 256
SetAL(s, v) == [s EXCEPT !.r[AX] = AH(s) * 256 + (v % 256)]
SetAH(s, v) == [s EXCEPT !.r[AX] = (v % 256) * 256 + AL(s)]

op_sahf(s, u) ==
  LET f(t, flag) == cpu8086_setflag(t, flag, (AH(s) \div flag) % 2 = 1)
  IN Charge(f(f(f(f(f(s, FLAG_CARRY), FLAG_PARITY), FLAG_AUXILIARY), FLAG_ZERO), FLAG_SIGN), 4)

op_lahf_low_byte(s, u) == Charge(SetAL(s, s.flags % 256), 4)

op_lahf(s, u) == Charge(SetAH(s, s.flags % 256), 4)

op_cbw(s, u) == Charge(SetAH(s, 255 * Bit(AL(s), 7)), 2)

op_cwd(s, u) == Charge([s EXCEPT !.r[DX] = 65535 * Bit(s.r[AX], 15)], 5)

op_wait(s, u) == Charge(s, 3)

(***************************************************************************)
(* LEA, LDS, LES (1334-1370).  Both LDS and LES store the segment in ES.   *)
(***************************************************************************)
op_lea(s, u) ==
  IF ~s.source.virtual /\ ~s.ndebug THEN AssertFail(s)
  ELSE Charge(loc_write(s, s.destination, U16(s.source.address)), 2)

op_lds(s, u) ==
  IF ~s.source.virtual /\ ~s.ndebug THEN AssertFail(s)
  ELSE LET offset == loc_read(s, s.source, u)
           s1 == [OddCharge(s, s.source) EXCEPT !.source.address = s.source.address + 2]
           segment == loc_read(s1, s1.source, u)
           s2 == loc_write(OddCharge(s1, s1.source), s1.destination, offset)
       IN Charge([s2 EXCEPT !.r[ES] = segment], 16)

op_les(s, u) ==
  IF ~s.source.virtual /\ ~s.ndebug THEN AssertFail(s)
  ELSE LET offset == loc_read(s, s.source, u)
           s1 == [OddCharge(s, s.source) EXCEPT !.source.address = s.source.address + 2]
           segment == loc_read(s1, s1.source, u)
           s2 == loc_write(OddCharge(s1, s1.source), s1.destination, offset)
       IN Charge([s2 EXCEPT !.r[ES] = segment], 16)

(***************************************************************************)
(* BCD adjustment (681-731, 976-1040).                                     *)
(***************************************************************************)
\* setpzs on AL, then OF from (al ^ old_al) & (al ^ added) & 0x80, then 4 cycles
BcdTail(s, old_al, added) ==
  LET s1 == cpu8086_setpzs_flags(s, AL(s), FALSE)
  IN Charge(cpu8086_setflag(s1, FLAG_OVERFLOW,
              Bit(AL(s), 7) # Bit(old_al, 7) /\ Bit(AL(s), 7) # Bit(added, 7)), 4)

op_aaa(s, u) ==
  LET old_al == AL(s)
      adj == (AL(s) % 16) > 9 \/ cpu8086_getflag(s, FLAG_AUXILIARY)
      added == IF adj THEN 6 ELSE 0
      s1 == IF adj THEN SetAL(SetAH(s, AH(s) + 1), AL(s) + 6) ELSE s
      s2 == cpu8086_setflag(cpu8086_setflag(s1, FLAG_AUXILIARY, adj), FLAG_CARRY, adj)
  IN BcdTail(SetAL(s2, AL(s2) % 16), old_al, added)

op_aas(s, u) ==
  LET old_al == AL(s)
      adj == (AL(s) % 16) > 9 \/ cpu8086_getflag(s, FLAG_AUXILIARY)
      added == IF adj THEN 65530 ELSE 0
      s1 == IF adj THEN SetAL(SetAH(s, AH(s) + 255), AL(s) + 65530) ELSE s
      s2 == cpu8086_setflag(cpu8086_setflag(s1, FLAG_AUXILIARY, adj), FLAG_CARRY, adj)
  IN BcdTail(SetAL(s2, AL(s2) % 16), old_al, added)

\* a faulty op_daa, which compares AL against 0x99 whatever AF was
op_daa_at_99(s, u) ==
  LET old_al == AL(s)
      old_af == cpu8086_getflag(s, FLAG_AUXILIARY)
      lo == (AL(s) % 16) > 9 \/ old_af
      hi == old_al > 153 \/ cpu8086_getflag(s, FLAG_CARRY)
      added == U8((IF lo THEN 6 ELSE 0) + (IF hi THEN 96 ELSE 0))
      s1 == cpu8086_setflag(cpu8086_setflag(s, FLAG_AUXILIARY, lo), FLAG_CARRY, hi)
  IN BcdTail(SetAL(s1, AL(s1) + added), old_al, added)

op_daa(s, u) ==
  LET old_al == AL(s)
      old_af == cpu8086_getflag(s, FLAG_AUXILIARY)
      lo == (AL(s) % 16) > 9 \/ old_af
      hi == old_al > 153 + (IF old_af THEN 6 ELSE 0) \/ cpu8086_getflag(s, FLAG_CARRY)
      added == U8((IF lo THEN 6 ELSE 0) + (IF hi THEN 96 ELSE 0))
      s1 == cpu8086_setflag(cpu8086_setflag(s, FLAG_AUXILIARY, lo), FLAG_CARRY, hi)
  IN BcdTail(SetAL(s1, AL(s1) + added), old_al, added)

op_das(s, u) ==
  LET old_al == AL(s)
      old_af == cpu8086_getflag(s, FLAG_AUXILIARY)
      lo == (AL(s) % 16) > 9 \/ old_af
      hi == AL(s) > 153 + (IF old_af THEN 6 ELSE 0) \/ cpu8086_getflag(s, FLAG_CARRY)
      added == U8(256 - U8((IF lo THEN 6 ELSE 0) + (IF hi THEN 96 ELSE 0)))
      s1 == cpu8086_setflag(cpu8086_setflag(s, FLAG_AUXILIARY, lo), FLAG_CARRY, hi)
  IN BcdTail(SetAL(s1, AL(s1) + added), old_al, added)

(***************************************************************************)
(* Dispatch through op->func, and the IMM group (1081-1084).               *)
(***************************************************************************)
Handler(func, s, u) ==
  CASE func = "op_add" -> op_add(s, u)
    [] func = "op_adc" -> op_adc(s, u)
    [] func = "op_sub" -> op_sub(s, u)
    [] func = "op_sbb" -> op_sbb(s, u)
    [] func = "op_cmp" -> op_cmp(s, u)
    [] func = "op_and" -> op_and(s, u)
    [] func = "op_or" -> op_or(s, u)
    [] func = "op_xor" -> op_xor(s, u)
    [] func = "op_test" -> op_test(s, u)
    [] func = "op_inc" -> op_inc(s, u)
    [] func = "op_dec" -> op_dec(s, u)
    [] func \in JccFuncs -> op_jcc(func, s, u)
    [] func = "op_callfar" -> op_callfar(s, u)
    [] func = "op_retnear" -> op_retnear(s, u)
    [] func = "op_retfar" -> op_retfar(s, u)
    [] func = "op_mov" -> op_mov(s, u)
    [] func = "op_xchg" -> op_xchg(s, u)
    [] func = "op_push" -> op_push(s, u)
    [] func = "op_pop" -> op_pop(s, u)
    [] func = "op_pushf" -> op_pushf(s, u)
    [] func = "op_popf" -> op_popf(s, u)
    [] func = "op_sahf" -> op_sahf(s, u)
    [] func = "op_lahf" -> op_lahf(s, u)
    [] func = "op_cbw" -> op_cbw(s, u)
    [] func = "op_cwd" -> op_cwd(s, u)
    [] func = "op_wait" -> op_wait(s, u)
    [] func = "op_lea" -> op_lea(s, u)
    [] func = "op_lds" -> op_lds(s, u)
    [] func = "op_les" -> op_les(s, u)
    [] func = "op_aaa" -> op_aaa(s, u)
    [] func = "op_aas" -> op_aas(s, u)
    [] func = "op_daa" -> op_daa(s, u)
    [] func = "op_das" -> op_das(s, u)

\* the handler op_imm forwards to, with the same op and cpu
op_imm(s) == imm_table[RegField(s) + 1].func

\* the operands a handler reads or writes through their location
Operands(func) ==
  CASE func \in {"op_add", "op_adc", "op_sub", "op_sbb", "op_cmp", "op_and", "op_or",
                 "op_xor", "op_test", "op_mov", "op_xchg", "op_lds", "op_les"} ->
         {"destination", "source"}
    [] func \in {"op_inc", "op_dec", "op_push", "op_pop", "op_lea"} -> {"destination"}
    [] func \in JccFuncs \cup {"op_callfar"} -> {"source"}
    [] OTHER -> {}

\* op->func(op, cpu): a wild operand pointer may end the process instead
Call(func, s, u) ==
  LET f == IF func = "op_imm" THEN op_imm(s) ELSE func
      ops == Operands(f) \cup
             (IF f \in {"op_retnear", "op_retfar"} /\ s.source.type = "DECODED_IMMEDIATE"
              THEN {"source"} ELSE {})
      wild == \/ "destination" \in ops /\ WildAccess(s, s.destination)
              \/ "source" \in ops /\ WildAccess(s, s.source)
      t == IF wild /\ u = -1 THEN [s EXCEPT !.status = "ub"]
           ELSE Handler(f, s, u)
  IN [t EXCEPT !.g_func = Append(s.g_func, f)]

(***************************************************************************)
(* Faulty variants of the reset and of the BIU's guard, against which the  *)
(* properties of the reset state and of the queue are tried.               *)
(***************************************************************************)
\* cpu8086_reset without the assignment to flags
BiuIdle == [may |-> TRUE, c0 |-> 0, c1 |-> 0, ip0 |-> 0, ip1 |-> 0, gap |-> 0, cont |-> TRUE]

cpu8086_reset_keeps_flags(s) ==
  cpu8086_reset_execution_regs(
    [s EXCEPT !.ip = 0, !.r[CS] = 65535, !.r[DS] = 0, !.r[SS] = 0, !.r[ES] = 0,
              !.mt = TRUE, !.q_r = 0, !.biu_prefetch_cycles = 3, !.cycles = 0,
              !.current_ip = 0,
              !.g_live = {}, !.g_deq = <<>>, !.g_func = <<>>, !.g_jumped = FALSE,
              !.g_fetch = <<>>, !.g_overwrite = FALSE, !.g_guard = TRUE,
              !.g_target = -1, !.g_ontarget = TRUE,
              !.g_prev = s.stage, !.g_path = <<"CPU8086_READY">>, !.g_bytes = <<>>,
              !.g_stalled = FALSE, !.g_decoded = <<>>, !.g_fresh = TRUE,
              !.g_pre = <<>>, !.g_opre = <<>>, !.g_clean = TRUE,
              !.g_n = -1, !.g_since = 0, !.g_gap = TRUE, !.g_cyc0 = 0,
              !.g_op0 = -1, !.g_jumps = FALSE, !.g_count = 0,
              !.g_run = 0, !.g_cont = TRUE, !.g_biu = BiuIdle])

\* a BIU that fetches whatever the state of the queue
BiuAlwaysFetches(s) == TRUE

(***************************************************************************)
(* cpu8086_new and cpu8086_reset (1840-1865).  The struct comes from       *)
(* calloc, so every field the reset does not assign starts at zero.  The   *)
(* reset assigns q_r twice and never q_w or hl.                            *)
(***************************************************************************)
cpu8086_reset(s) ==
  cpu8086_reset_execution_regs(
    [s EXCEPT !.flags = 0,
              !.ip = 0,
              !.r[CS] = 65535,
              !.r[DS] = 0,
              !.r[SS] = 0,
              !.r[ES] = 0,
              !.mt = TRUE,
              !.q_r = 0,
              !.biu_prefetch_cycles = 3,
              !.cycles = 0,
              !.current_ip = 0,
              !.g_live = {}, !.g_deq = <<>>, !.g_func = <<>>, !.g_jumped = FALSE,
              !.g_fetch = <<>>, !.g_overwrite = FALSE, !.g_guard = TRUE,
              !.g_target = -1, !.g_ontarget = TRUE,
              !.g_prev = s.stage, !.g_path = <<"CPU8086_READY">>, !.g_bytes = <<>>,
              !.g_stalled = FALSE, !.g_decoded = <<>>, !.g_fresh = TRUE,
              !.g_pre = <<>>, !.g_opre = <<>>, !.g_clean = TRUE,
              !.g_n = -1, !.g_since = 0, !.g_gap = TRUE, !.g_cyc0 = 0,
              !.g_op0 = -1, !.g_jumps = FALSE, !.g_count = 0,
              !.g_run = 0, !.g_cont = TRUE, !.g_biu = BiuIdle])

NullLocation == [type |-> "DECODED_REGISTER", address |-> 0, virtual |-> FALSE]

Zeroed(ndebug) ==
  [r |-> [i \in 0..(REGISTER_COUNT - 1) |-> 0], ip |-> 0, flags |-> 0,
   q |-> [i \in 0..2 |-> 0], q_r |-> 0, q_w |-> 0, hl |-> 0, mt |-> FALSE,
   current_ip |-> 0, cycles |-> 0, biu_prefetch_cycles |-> 0,
   prefix_g1 |-> 0, prefix_g2 |-> 0, opcode_byte |-> 0,
   disp8_byte |-> 0, disp16_byte |-> 0, imm8_byte |-> 0, imm16_byte |-> 0,
   lo_segment |-> 0, hi_segment |-> 0, immediate |-> [h \in 0..1 |-> 0], rm |-> 0, reg |-> 0,
   stage |-> "CPU8086_READY", modrm_byte |-> 0,
   destination |-> NullLocation, source |-> NullLocation,
   op |-> NullOp, modrm_is_segreg |-> FALSE, repeat |-> FALSE, test |-> FALSE,
   memory |-> <<>>, status |-> "running", ndebug |-> ndebug,
   g_live |-> {}, g_deq |-> <<>>, g_func |-> <<>>, g_jumped |-> FALSE,
   g_fetch |-> <<>>, g_overwrite |-> FALSE, g_guard |-> TRUE,
   g_target |-> -1, g_ontarget |-> TRUE,
   g_prev |-> "CPU8086_READY", g_path |-> <<>>, g_bytes |-> <<>>,
   g_stalled |-> FALSE, g_decoded |-> <<>>, g_fresh |-> TRUE,
   g_pre |-> <<>>, g_opre |-> <<>>, g_clean |-> TRUE,
   g_n |-> -1, g_since |-> 0, g_gap |-> TRUE, g_cyc0 |-> 0,
   g_op0 |-> -1, g_jumps |-> FALSE, g_count |-> 0,
   g_run |-> 0, g_cont |-> TRUE, g_biu |-> BiuIdle,
   cpu_clock |-> 0, g_cpu_ticks |-> 0]

cpu8086_new(ndebug) == cpu8086_reset(Zeroed(ndebug))

(***************************************************************************)
(* cpu8086_clock, the BIU half (1872-1888).  The countdown is a uint8_t:   *)
(* (0 - 1) % 4 is -1 in C and is stored as 255, and (255 - 1) % 4 is 2, so *)
(* the countdown runs 0, 255, 2, 1, 0.                                     *)
(***************************************************************************)
BiuMayFetch(s) == s.mt \/ s.q_w # s.q_r

BiuFetch(s) ==
  LET address == s.r[CS] * 16 + s.ip
      odd == s.ip % 2 = 1
      hl == IF odd THEN 1 ELSE s.hl
      fresh == {<<s.q_w, 0>>, <<s.q_w, 1>>}
  IN [s EXCEPT !.q[s.q_w] = bus_read_short(s.memory, address),
               !.q_w = (s.q_w + 1) % 3,
               !.mt = FALSE,
               !.hl = hl,
               !.ip = IF odd THEN U16(s.ip + 1) ELSE U16(s.ip + 2),
               !.g_fetch = Append(s.g_fetch, Mask20(address)),
               !.g_guard = s.mt \/ s.q_w # s.q_r,
               !.g_overwrite = \E c \in s.g_live : c[1] = s.q_w,
               !.g_ontarget = s.g_target = -1 \/ s.g_target = Mask20(address),
               !.g_target = -1,
               !.g_live = s.g_live \cup fresh]

\* a faulty variant: the countdown is decremented without the reduction
BiuCountdown_unreduced(s) ==
  IF BiuMayFetch(s)
  THEN [(IF s.biu_prefetch_cycles = 0 THEN BiuFetch(s) ELSE s)
          EXCEPT !.biu_prefetch_cycles = U8(s.biu_prefetch_cycles + 255)]
  ELSE s

BiuCountdown(s) ==
  IF BiuMayFetch(s)
  THEN [(IF s.biu_prefetch_cycles = 0 THEN BiuFetch(s) ELSE s)
          EXCEPT !.biu_prefetch_cycles =
            IF s.biu_prefetch_cycles = 0 THEN 255 ELSE (s.biu_prefetch_cycles - 1) % 4]
  ELSE s

\* g_biu: what the BIU part of this tick saw and did; g_run: ticks since the
\* last fetch; g_cont: the fetch guard held on every tick since the last fetch
BiuStep(s) ==
  LET may == BiuMayFetch(s)
      fetch == may /\ s.biu_prefetch_cycles = 0
      t == BiuCountdown(s)
  IN [t EXCEPT !.g_biu = [may |-> may, c0 |-> s.biu_prefetch_cycles,
                          c1 |-> t.biu_prefetch_cycles, ip0 |-> s.ip, ip1 |-> t.ip,
                          gap |-> IF fetch THEN s.g_run + 1 ELSE 0,
                          cont |-> s.g_cont /\ may],
               !.g_run = IF fetch THEN 0 ELSE s.g_run + 1,
               !.g_cont = IF fetch THEN TRUE ELSE s.g_cont /\ may]

(***************************************************************************)
(* The stages (1913-2222).  A stage either returns, leaving cpu->stage as  *)
(* it is (the queue ran empty, or a prefix was read), or sets cpu->stage   *)
(* and jumps to next_stage.  The stages only follow one another forwards   *)
(* (READY, FETCH_MODRM, FETCH_IMM or FETCH_ADDRESS, DECODE_LOC,            *)
(* EXECUTING), so the switch with its goto is one pass over them in that   *)
(* order, each taken when cpu->stage names it.                             *)
(***************************************************************************)
DeltaSiDi(s) ==
  LET delta == IF op_entry(s).is_word THEN 2 ELSE 1
      d == IF cpu8086_getflag(s, FLAG_DIRECTION) THEN 65536 - delta ELSE delta
  IN [s EXCEPT !.r[SI] = U16(s.r[SI] + d), !.r[DI] = U16(s.r[DI] + d)]

\* is the switch at this stage (and the process alive)?
At(s, stage) == s.status = "running" /\ s.stage = stage

\* exec_op: with repeat set, until CX is 0: CX--, the handler, SI and DI move;
\* without it the handler once and cycles -= 1.  g_n keeps the cycles charged
\* when the instruction is through, before that deduction, and g_since counts
\* the ticks since then.
RECURSIVE ExecOp(_, _)
RECURSIVE AfterCall(_, _, _)
AfterCall(repeat, t, u) ==
  IF t.status # "running" THEN t
  ELSE IF repeat THEN ExecOp(DeltaSiDi(t), u)
  ELSE [Charge(t, 255) EXCEPT !.g_n = t.cycles, !.g_since = 0]

ExecOp(s, u) ==
  IF s.repeat /\ s.r[CX] = 0 THEN [s EXCEPT !.g_n = s.cycles, !.g_since = 0]
  ELSE AfterCall(s.repeat,
                 Call(op_entry(s).func,
                      IF s.repeat THEN [s EXCEPT !.r[CX] = s.r[CX] - 1] ELSE s, u), u)

Executing(s, u) ==
  IF ~At(s, "CPU8086_EXECUTING") THEN s
  ELSE IF op_entry(s).func = "NULL" /\ ~s.ndebug
  THEN [s EXCEPT !.status = "abort"]                    \* assert(op->func)
  ELSE IF op_entry(s).func = "NULL" /\ ~(s.repeat /\ s.r[CX] = 0)
  THEN [s EXCEPT !.status = "ub"]                       \* a call through NULL
  ELSE ExecOp(IF s.repeat THEN Charge(s, 9) ELSE s, u)

\* g_decoded keeps the machine as it stands when the operands are resolved
Decoded(s) == [s EXCEPT !.g_decoded = <<[s EXCEPT !.g_decoded = <<>>]>>]

DecodeLoc(s) ==
  IF ~At(s, "CPU8086_DECODE_LOC") THEN s
  ELSE Decoded([s EXCEPT !.destination = loc_set(s, s.destination, op_entry(s).destination),
                         !.source = loc_set(s, s.source, op_entry(s).source),
                         !.stage = "CPU8086_EXECUTING",
                         !.g_path = Append(s.g_path, "CPU8086_EXECUTING")])

\* a faulty fetch, which forgets on resuming that the field has been read
FetchByte_rereads(s, prev, field) ==
  IF (prev # "" /\ s[prev] = 65535) \/ s.mt THEN s
  ELSE [cpu8086_prefetch_dequeue(s) EXCEPT ![field] = DequeueByte(s)]

\* if (field == NONE) { if (cpu->mt) return; field = cpu8086_prefetch_dequeue(cpu); }
\* reached only when the byte before it (prev, if any) has been read
FetchByte(s, prev, field) ==
  IF (prev # "" /\ s[prev] = 65535) \/ s[field] # 65535 \/ s.mt THEN s
  ELSE [cpu8086_prefetch_dequeue(s) EXCEPT ![field] = DequeueByte(s)]

AddressComplete(s) ==
  IF s.imm16_byte = IMM16_NONE
     \/ (op_entry(s).source = "LOC_SEGOFF" /\ s.hi_segment = HI_SEGMENT_NONE)
  THEN s
  ELSE [s EXCEPT !.immediate =
                   IF op_entry(s).source = "LOC_SEGOFF"
                   THEN [h \in 0..1 |-> IF h = 0 THEN s.hi_segment * 256 + s.lo_segment
                                        ELSE s.imm16_byte * 256 + s.imm8_byte]
                   ELSE [h \in 0..1 |-> IF h = 0 THEN s.imm16_byte * 256 + s.imm8_byte
                                        ELSE 0],
                 !.stage = "CPU8086_DECODE_LOC",
                 !.g_path = Append(s.g_path, "CPU8086_DECODE_LOC")]

SegmentBytes(s) ==
  IF op_entry(s).source # "LOC_SEGOFF" THEN s
  ELSE FetchByte(FetchByte(s, "imm16_byte", "lo_segment"), "lo_segment", "hi_segment")

FetchAddress(s) ==
  IF ~At(s, "CPU8086_FETCH_ADDRESS") THEN s
  ELSE AddressComplete(SegmentBytes(
         FetchByte(FetchByte(s, "", "imm8_byte"), "imm8_byte", "imm16_byte")))

\* the second immediate byte: sign-extended for LOC_IMM8, else dequeued
ImmHigh(s) ==
  IF s.imm8_byte = IMM8_NONE \/ ~op_entry(s).is_word \/ s.imm16_byte # IMM16_NONE THEN s
  ELSE IF op_entry(s).source = "LOC_IMM8"
  THEN [s EXCEPT !.imm16_byte = 255 * Bit(s.imm8_byte, 7)]
  ELSE FetchByte(s, "imm8_byte", "imm16_byte")

ImmComplete(s) ==
  IF s.imm8_byte = IMM8_NONE \/ (op_entry(s).is_word /\ s.imm16_byte = IMM16_NONE) THEN s
  ELSE [s EXCEPT !.immediate =
                   [h \in 0..1 |-> IF h = 1 THEN 0
                                   ELSE IF op_entry(s).is_word
                                   THEN s.imm16_byte * 256 + s.imm8_byte
                                   ELSE s.imm8_byte],
                 !.stage = "CPU8086_DECODE_LOC",
                 !.g_path = Append(s.g_path, "CPU8086_DECODE_LOC")]

FetchImm(s) ==
  IF ~At(s, "CPU8086_FETCH_IMM") THEN s
  ELSE ImmComplete(ImmHigh(FetchByte(s, "", "imm8_byte")))

\* the stage that follows FETCH_MODRM, and READY when there is no ModR/M
\* (1958-1964, 2086-2092)
AfterModrm(op) ==
  IF op.source \in {"LOC_IMM", "LOC_IMM8"} THEN "CPU8086_FETCH_IMM"
  ELSE IF op.destination = "LOC_ADDR" \/ op.source = "LOC_ADDR" \/ op.source = "LOC_SEGOFF"
  THEN "CPU8086_FETCH_ADDRESS"
  ELSE "CPU8086_DECODE_LOC"

\* the offset and default segment of a memory r/m, with its cycles (2004-2066)
EaBase(s) ==
  LET rmf == RmField(s)
      disp == s.disp16_byte * 256 + s.disp8_byte
  IN CASE rmf = 0 -> [off |-> U16(s.r[BX] + s.r[SI]), seg |-> DS, cyc |-> 7]
       [] rmf = 1 -> [off |-> U16(s.r[BX] + s.r[DI]), seg |-> DS, cyc |-> 8]
       [] rmf = 2 -> [off |-> U16(s.r[BP] + s.r[SI]), seg |-> SS, cyc |-> 8]
       [] rmf = 3 -> [off |-> U16(s.r[BP] + s.r[DI]), seg |-> SS, cyc |-> 7]
       [] rmf = 4 -> [off |-> s.r[SI], seg |-> DS, cyc |-> 5]
       [] rmf = 5 -> [off |-> s.r[DI], seg |-> DS, cyc |-> 5]
       [] rmf = 6 -> IF ModField(s) # 0
                     THEN [off |-> s.r[BP], seg |-> SS, cyc |-> 5]
                     ELSE [off |-> disp, seg |-> DS, cyc |-> 6]
       [] rmf = 7 -> [off |-> s.r[BX], seg |-> DS, cyc |-> 5]

\* cpu->reg, cpu->rm and the cycles once ModR/M and displacement are read
ResolveModrm(s) ==
  LET op == op_entry(s)
      segreg == op.destination = "LOC_SREG" \/ op.source = "LOC_SREG"
      reg == IF op.is_word
             THEN cpu8086_reg_word(RegField(s) + 8 * (IF segreg THEN 1 ELSE 0))
             ELSE cpu8086_reg_byte(RegField(s))
      s1 == [s EXCEPT !.modrm_is_segreg = segreg, !.reg = reg]
      ea == EaBase(s)
      disp == IF ModField(s) = MOD_DISP16
              THEN S16(s.disp16_byte * 256 + s.disp8_byte)
              ELSE IF ModField(s) = MOD_DISP8 THEN S8(s.disp8_byte) ELSE 0
      off == IF ModField(s) \in {MOD_DISP8, MOD_DISP16}
             THEN U16(ea.off + 65536 + disp) ELSE ea.off
      cyc == ea.cyc + (IF ModField(s) \in {MOD_DISP8, MOD_DISP16} THEN 4 ELSE 0)
  IN IF ModField(s) = MOD_REG
     THEN [s1 EXCEPT !.rm = IF op.is_word THEN cpu8086_reg_word(RegField(s))
                            ELSE cpu8086_reg_byte(RmField(s))]
     ELSE Charge([s1 EXCEPT !.rm = Mask20(RegWord(s, PrefixSegment(s, ea.seg)) * 16 + off)], cyc)

IsDisp16(s) == (ModField(s) = 0 /\ RmField(s) = 6) \/ ModField(s) = MOD_DISP16

\* the displacement bytes the ModR/M byte asks for
Disp8(s) ==
  IF ModField(s) = MOD_DISP8 \/ IsDisp16(s) THEN FetchByte(s, "modrm_byte", "disp8_byte") ELSE s
Disp16(s) ==
  IF IsDisp16(s) THEN FetchByte(s, "disp8_byte", "disp16_byte") ELSE s

ModrmComplete(s) ==
  IF \/ ((ModField(s) = MOD_DISP8 \/ IsDisp16(s)) /\ s.disp8_byte = DISP8_NONE)
     \/ (IsDisp16(s) /\ s.disp16_byte = DISP16_NONE)
  THEN s
  ELSE [ResolveModrm(s) EXCEPT !.stage = AfterModrm(op_entry(s)),
                               !.g_path = Append(s.g_path, AfterModrm(op_entry(s)))]

FetchModrm(s) ==
  IF ~At(s, "CPU8086_FETCH_MODRM") \/ s.mt THEN s
  ELSE ModrmComplete(Disp16(Disp8(FetchByte(s, "", "modrm_byte"))))

\* what a read past the end of op_table finds when it does not fault: zeroed
\* storage, that is LOC_AX twice and no handler
WildOp ==
  [name |-> "", destination |-> "LOC_AX", source |-> "LOC_AX",
   is_word |-> FALSE, is_string |-> FALSE, func |-> "NULL"]

\* the row op points to: op_table has 204 rows, and a byte from 0xCC on
\* indexes past its end (u = -1: the read faults or finds anything else)
OpRow(byte, u) == IF byte < Len(op_table) THEN op_table[byte + 1] ELSE WildOp

\* a faulty choice, which tests the immediate source before the r/m operand
AfterOpcode_imm_first(op) == AfterModrm(op)

\* the stage chosen once the opcode byte is known (1956-1963)
AfterOpcode(op) ==
  IF op.destination = "LOC_RM" \/ op.source = "LOC_RM"
  THEN "CPU8086_FETCH_MODRM" ELSE AfterModrm(op)

\* the opcode byte: op, repeat and the next stage (1951-1965)
Opcode(s, op, byte, u) ==
  IF byte >= Len(op_table) /\ u = -1
  THEN [s EXCEPT !.opcode_byte = byte, !.status = "ub"]
  ELSE [s EXCEPT !.opcode_byte = byte,
                 !.op = op,
                 !.repeat = s.repeat /\ op.is_string,
                 !.stage = AfterOpcode(op),
                 !.g_path = Append(s.g_path, AfterOpcode(op)),
                 !.g_bytes = <<byte>>,
                 !.g_stalled = FALSE,
                 !.g_opre = s.g_pre,
                 !.g_pre = <<>>]

ReadyByte(s, byte, u) ==
  CASE byte = PREFIX_G1_LOCK -> [s EXCEPT !.cycles = 1, !.g_pre = Append(s.g_pre, byte)]
    [] byte \in {PREFIX_G1_REPNZ, PREFIX_G1_REPZ} ->
         [s EXCEPT !.repeat = TRUE, !.prefix_g1 = byte, !.cycles = 1,
                   !.g_pre = Append(s.g_pre, byte)]
    [] byte \in {PREFIX_G2_ES, PREFIX_G2_CS, PREFIX_G2_SS, PREFIX_G2_DS} ->
         [s EXCEPT !.prefix_g2 = byte, !.cycles = 1, !.g_pre = Append(s.g_pre, byte)]
    [] OTHER -> Opcode(s, OpRow(byte, u), byte, u)

Ready(s, u) ==
  IF ~At(s, "CPU8086_READY") THEN s
  ELSE ReadyByte(cpu8086_prefetch_dequeue(
                   [s EXCEPT !.g_fresh = TRUE,
                             !.g_gap = s.g_n < 0 \/ s.g_since >= s.g_n,
                             !.g_clean = IF s.g_pre # <<>> THEN s.g_clean
                                         ELSE /\ s.prefix_g1 = PREFIX_G1_NONE
                                              /\ s.prefix_g2 = PREFIX_G2_NONE
                                              /\ ~s.repeat]),
                 DequeueByte(s), u)

\* the switch on cpu->stage with its goto next_stage
Stage(s, u) ==
  Executing(DecodeLoc(FetchAddress(FetchImm(FetchModrm(Ready(s, u))))), u)

\* the EU half from the cycle check on (1894-1912)
EuRun(s, u) ==
  IF s.cycles > 0 THEN [s EXCEPT !.cycles = s.cycles - 1]
  ELSE IF s.mt THEN s
  ELSE Stage(IF s.stage = "CPU8086_EXECUTING"
             THEN [cpu8086_reset_execution_regs(s) EXCEPT
                     !.g_path = Append(s.g_path, "CPU8086_READY")]
             ELSE s, u)

\* the EU half: the WAIT stall first (1890-1892)
EuStep(s, u) ==
  EuRun(IF s.opcode_byte = 155 /\ s.test THEN Charge(s, 5) ELSE s, u)

\* g_stalled: a tick has ended inside a fetch stage of this instruction
Stalled(t) ==
  IF t.stage \in {"CPU8086_FETCH_MODRM", "CPU8086_FETCH_IMM", "CPU8086_FETCH_ADDRESS"}
  THEN [t EXCEPT !.g_stalled = TRUE] ELSE t

cpu8086_clock(s, u) ==
  Stalled(EuStep(BiuStep([s EXCEPT !.g_deq = <<>>, !.g_func = <<>>, !.g_jumped = FALSE,
                                   !.g_fetch = <<>>, !.g_overwrite = FALSE,
                                   !.g_guard = TRUE, !.g_ontarget = TRUE,
                                   !.g_prev = s.stage, !.g_path = <<>>,
                                   !.g_cyc0 = s.cycles, !.g_since = s.g_since + 1,
                                   !.g_op0 = s.opcode_byte]), u))

(***************************************************************************)
(* bus_clock (unnamed/part_000, 39-45).  cpu_clock is an int that starts   *)
(* at 0; C's % truncates towards zero, so (0 - 1) % 3 is -1, (-1 - 1) % 3  *)
(* is -2 and (-2 - 1) % 3 is 0.  g_cpu_ticks counts the calls of           *)
(* cpu8086_clock that bus_clock makes.                                     *)
(***************************************************************************)
CRem(a, n) == IF a >= 0 THEN a % n ELSE 0 - ((0 - a) % n)

\* a faulty bus_clock, which clocks the cpu on every call
bus_clock_undivided(s, u) ==
  [cpu8086_clock(s, u) EXCEPT !.g_cpu_ticks = s.g_cpu_ticks + 1]

bus_clock(s, u) ==
  [(IF s.cpu_clock = 0
    THEN [cpu8086_clock(s, u) EXCEPT !.g_cpu_ticks = s.g_cpu_ticks + 1]
    ELSE s)
   EXCEPT !.cpu_clock = CRem(s.cpu_clock - 1, 3)]

(***************************************************************************)
(* The machine under a test program.  main() (unnamed/part_002) builds the *)
(* bus and the cpu, copies a program to 0xFFFF0, presets registers and     *)
(* clocks the cpu; a scenario is one such program with its presets.        *)
(* phase names the last operation, ticks and resets count the clock ticks  *)
(* and the resets so far, probe keeps what the properties refer back to.   *)
(***************************************************************************)
ResetVector == 1048560

RECURSIVE LoadBytes(_, _, _)
LoadBytes(memory, at, bytes) ==
  IF bytes = <<>> THEN memory
  ELSE LoadBytes(bus_write_byte(memory, at, Head(bytes)), at + 1, Tail(bytes))

RECURSIVE LoadRegs(_, _)
LoadRegs(r, presets) ==
  IF presets = <<>> THEN r
  ELSE LoadRegs([r EXCEPT ![Head(presets)[1]] = Head(presets)[2]], Tail(presets))

RECURSIVE LoadData(_, _)
LoadData(memory, blocks) ==
  IF blocks = <<>> THEN memory
  ELSE LoadData(LoadBytes(memory, Head(blocks)[1], Head(blocks)[2]), Tail(blocks))

Scenarios ==
  { \* main() as shipped: ADD AX, 0x1003 with AX = 0xFFFF
    [name |-> "main", code |-> <<5, 3, 16>>,
     regs |-> <<<<AX, 65535>>, <<CX, 300>>, <<BX, 1>>>>, flags |-> 0, data |-> <<>>],
    \* REP MOVSB, forwards and backwards
    [name |-> "movsb_up", code |-> <<243, 164>>,
     regs |-> <<<<SI, 256>>, <<DI, 512>>, <<CX, 4>>>>, flags |-> 0,
     data |-> <<<<256, <<170, 187, 204, 221>>>>>>],
    [name |-> "movsb_down", code |-> <<243, 164>>,
     regs |-> <<<<SI, 259>>, <<DI, 515>>, <<CX, 4>>>>, flags |-> FLAG_DIRECTION,
     data |-> <<<<256, <<170, 187, 204, 221>>>>>>],
    \* RET near to 0xFFFF:0x0008, with INC CX .. INC DI behind the RET
    [name |-> "retnear", code |-> <<195, 65, 66, 67, 68, 69, 70, 71, 64, 64, 64>>,
     regs |-> <<<<SP, 256>>>>, flags |-> 0, data |-> <<<<256, <<8, 0>>>>>>],
    \* RET far to 0x0040:0x0002, with INC CX .. behind the RET
    [name |-> "retfar", code |-> <<203, 65, 66, 67, 68, 69, 70, 71>>,
     regs |-> <<<<SP, 256>>>>, flags |-> 0,
     data |-> <<<<256, <<2, 0, 64, 0>>>>, <<1026, <<64, 64, 64, 64>>>>>>],
    \* CALL far 0x0040:0x0002
    [name |-> "callfar", code |-> <<154, 2, 0, 64, 0, 65, 66, 67>>,
     regs |-> <<<<SP, 256>>>>, flags |-> 0, data |-> <<<<1026, <<64, 64, 64, 64>>>>>>],
    \* ADD AL, AL then JNE +4
    [name |-> "jne", code |-> <<0, 192, 117, 4, 65, 66, 67, 68, 64, 64>>,
     regs |-> <<<<AX, 4>>>>, flags |-> 0, data |-> <<>>],
    \* INC AX, then memory operands slow enough for the queue to fill
    [name |-> "fill", code |-> <<64, 0, 0, 0, 0, 65, 66, 67, 68, 69, 70, 71>>,
     regs |-> <<<<BX, 16>>, <<SI, 1>>>>, flags |-> 0, data |-> <<>>],
    \* ADD [BX + SI - 1], CX, the program main() keeps in a comment; then WAIT
    [name |-> "addmem", code |-> <<1, 72, 255, 155, 155, 155>>,
     regs |-> <<<<BX, 1>>, <<SI, 0>>, <<CX, 1>>>>, flags |-> 0, data |-> <<>>],
    \* JMP FAR F000:E05B
    [name |-> "jmpfar", code |-> <<234, 91, 224, 0, 240>>,
     regs |-> <<>>, flags |-> 0, data |-> <<>>],
    \* 0xC8, a row of op_table without a handler
    [name |-> "illegal", code |-> <<200, 65, 66, 67>>,
     regs |-> <<>>, flags |-> 0, data |-> <<>>],
    \* MOV byte [0x0300], 0x5A: ModR/M, disp16 and an immediate
    [name |-> "movmem", code |-> <<198, 6, 0, 3, 90, 65, 66, 67>>,
     regs |-> <<>>, flags |-> 0, data |-> <<>>],
    \* REP MOVSB with CX = 0, then INC CX
    [name |-> "rep0", code |-> <<243, 164, 65, 66, 67, 68>>,
     regs |-> <<<<SI, 256>>, <<DI, 512>>>>, flags |-> 0, data |-> <<>>],
    \* ADD BX, CX: mod = 11, reg = CX, rm = BX
    [name |-> "regrm", code |-> <<1, 203, 155, 155, 155>>,
     regs |-> <<<<BX, 5>>, <<CX, 3>>>>, flags |-> 0, data |-> <<>>],
    \* SUB byte [0x0300], 5 (0x80 /5) with 0x10 in memory
    [name |-> "immgrp", code |-> <<128, 46, 0, 3, 5, 155, 155, 155>>,
     regs |-> <<>>, flags |-> 0, data |-> <<<<768, <<16>>>>>>],
    \* LDS BX, [0x0300] and LES BX, [0x0300] with 5678:1234 in memory
    [name |-> "lds", code |-> <<197, 30, 0, 3, 155, 155>>,
     regs |-> <<>>, flags |-> 0, data |-> <<<<768, <<52, 18, 120, 86>>>>>>],
    [name |-> "les", code |-> <<196, 30, 0, 3, 155, 155>>,
     regs |-> <<>>, flags |-> 0, data |-> <<<<768, <<52, 18, 120, 86>>>>>>],
    \* ES: MOV [BX], AL, then MOV [BX], CL without the prefix
    [name |-> "segover", code |-> <<38, 136, 7, 136, 15, 155, 155, 155>>,
     regs |-> <<<<ES, 256>>, <<BX, 16>>, <<AX, 90>>, <<CX, 165>>>>, flags |-> 0, data |-> <<>>],
    \* NOP, then INC CX
    [name |-> "nop", code |-> <<144, 65, 155, 155>>,
     regs |-> <<<<AX, 4660>>, <<CX, 7>>>>, flags |-> 2261, data |-> <<>>],
    \* XCHG CX, AX
    [name |-> "xchg", code |-> <<145, 155, 155, 155>>,
     regs |-> <<<<AX, 4660>>, <<CX, 22136>>>>, flags |-> 0, data |-> <<>>],
    \* MOVSB without a repeat prefix
    [name |-> "movs1", code |-> <<164, 155, 155, 155>>,
     regs |-> <<<<SI, 256>>, <<DI, 512>>, <<CX, 4>>>>, flags |-> 0,
     data |-> <<<<256, <<170, 187>>>>>>],
    \* ten one-byte INCs in a row
    [name |-> "incs", code |-> <<64, 65, 66, 67, 70, 71, 64, 65, 66, 67>>,
     regs |-> <<>>, flags |-> 0, data |-> <<>>] }

Load(s, sc) ==
  [s EXCEPT !.memory = LoadData(LoadBytes(s.memory, ResetVector, sc.code), sc.data),
            !.r = LoadRegs(s.r, sc.regs),
            !.flags = sc.flags]

Init ==
  /\ \E nd \in BOOLEAN : sys = cpu8086_new(nd)
  /\ phase = "new"
  /\ ticks = 0
  /\ resets = 0
  /\ probe = [name |-> "none", before |-> <<>>]

Setup ==
  /\ phase = "new"
  /\ \E sc \in Scenarios :
       /\ sys' = Load(sys, sc)
       /\ probe' = [probe EXCEPT !.name = sc.name]
  /\ phase' = "loaded"
  /\ UNCHANGED <<ticks, resets>>

Clock ==
  /\ phase # "new"
  /\ sys.status = "running"
  /\ ticks < MaxTicks
  /\ \E u \in UbOutcomes : sys' = cpu8086_clock(sys, u)
  /\ phase' = "clocked"
  /\ ticks' = ticks + 1
  /\ UNCHANGED <<resets, probe>>

\* probe.before keeps CS, IP and FLAGS as the reset found them
Reset ==
  /\ phase # "new"
  /\ sys.status = "running"
  /\ resets < MaxResets
  /\ sys' = cpu8086_reset(sys)
  /\ phase' = "reset"
  /\ resets' = resets + 1
  /\ probe' = [probe EXCEPT !.before = <<sys.r[CS], sys.ip, sys.flags>>]
  /\ UNCHANGED ticks

Next == Setup \/ Clock \/ Reset

Spec == Init /\ [][Next]_vars

(***************************************************************************)
(* The stack alone: a push followed by a pop, from every drawn SS, SP and  *)
(* word.                                                                   *)
(***************************************************************************)
StackWords == {0, 1, 255, 256, 4660, 32768, 43981, 65535}
StackSegments == {0, 1, 4096, 65535}
StackPointers == {0, 1, 2, 3, 256, 65534, 65535}

StackInit ==
  /\ \E x \in StackWords, ss \in StackSegments, sp \in StackPointers :
       /\ sys = [cpu8086_new(FALSE) EXCEPT !.r[SS] = ss, !.r[SP] = sp]
       /\ probe = [x |-> x, ss |-> ss, sp |-> sp, popped |-> -1]
  /\ phase = "new"
  /\ ticks = 0
  /\ resets = 0

Push ==
  /\ phase = "new"
  /\ sys' = cpu8086_push(sys, probe.x)
  /\ phase' = "pushed"
  /\ UNCHANGED <<ticks, resets, probe>>

Pop ==
  /\ phase = "pushed"
  /\ sys' = cpu8086_pop(sys)
  /\ probe' = [probe EXCEPT !.popped = PopValue(sys)]
  /\ phase' = "popped"
  /\ UNCHANGED <<ticks, resets>>

StackNext == Push \/ Pop

SpecStack == StackInit /\ [][StackNext]_vars

(***************************************************************************)
(* A byte register written through its operand location, for each of the   *)
(* eight encodings.                                                        *)
(***************************************************************************)
ByteRegLoc ==
  <<"LOC_AL", "LOC_CL", "LOC_DL", "LOC_BL", "LOC_AH", "LOC_CH", "LOC_DH", "LOC_BH">>
ByteValues == {0, 90, 128, 255}
RegFills == {0, 4369, 65535}

\* AX..DI hold fill, fill + 1, ... so that no two of them are equal
RegInit ==
  /\ \E reg \in 0..7, v \in ByteValues, fill \in RegFills :
       /\ sys = [cpu8086_new(FALSE) EXCEPT
                   !.r = [i \in 0..(REGISTER_COUNT - 1) |->
                            IF i <= DI THEN U16(fill + 257 * i) ELSE 0]]
       /\ probe = [reg |-> reg, v |-> v,
                   before |-> [i \in 0..(REGISTER_COUNT - 1) |->
                                 IF i <= DI THEN U16(fill + 257 * i) ELSE 0]]
  /\ phase = "new"
  /\ ticks = 0
  /\ resets = 0

WriteByteReg ==
  /\ phase = "new"
  /\ sys' = loc_write_byte(sys, loc_set(sys, sys.destination, ByteRegLoc[probe.reg + 1]),
                           probe.v)
  /\ phase' = "written"
  /\ UNCHANGED <<ticks, resets, probe>>

RegNext == WriteByteReg

SpecRegByte == RegInit /\ [][RegNext]_vars

(***************************************************************************)
(* One flag-setting handler applied to drawn operands: the destination is  *)
(* BX (BL), the source CX (CL), both resolved as registers.                *)
(***************************************************************************)
\* ADD, OR, AND, SUB, XOR, CMP r/m, r at byte and word width; INC BX, DEC BX
AluOpcodes == {0, 1, 8, 9, 32, 33, 40, 41, 48, 49, 56, 57, 67, 75}
AluValues == {0, 1, 3, 5, 15, 16, 127, 128, 255, 256, 32767, 32768, 65535}

AluInit ==
  /\ \E opc \in AluOpcodes, a \in AluValues, b \in AluValues, cf \in {0, FLAG_CARRY} :
       /\ op_table[opc + 1].is_word \/ (a < 256 /\ b < 256)
       /\ op_table[opc + 1].func \in {"op_inc", "op_dec"} => b = 1
       /\ sys = [cpu8086_new(FALSE) EXCEPT
                   !.opcode_byte = opc,
                   !.op = op_table[opc + 1],
                   !.r[BX] = a,
                   !.r[CX] = b,
                   !.flags = cf,
                   !.destination = [type |-> "DECODED_REGISTER",
                                    address |-> cpu8086_reg_word(BX), virtual |-> FALSE],
                   !.source = [type |-> "DECODED_REGISTER",
                               address |-> cpu8086_reg_word(CX), virtual |-> FALSE]]
       /\ probe = [name |-> op_table[opc + 1].name, is_word |-> op_table[opc + 1].is_word,
                   a |-> a, b |-> b, cf |-> cf # 0]
  /\ phase = "new"
  /\ ticks = 0
  /\ resets = 0

Alu ==
  /\ phase = "new"
  /\ sys' = Handler(sys.op.func, sys, 0)
  /\ phase' = "applied"
  /\ UNCHANGED <<ticks, resets, probe>>

AluNext == Alu

SpecAlu == AluInit /\ [][AluNext]_vars

(***************************************************************************)
(* The machine clocked through the bus, as main() does: ticks counts the   *)
(* calls of bus_clock.                                                     *)
(***************************************************************************)
MaxBusCalls == 30

BusClockInit ==
  /\ \E nd \in BOOLEAN, sc \in Scenarios :
       /\ sys = Load(cpu8086_new(nd), sc)
       /\ probe = [name |-> sc.name, before |-> <<>>]
  /\ phase = "loaded"
  /\ ticks = 0
  /\ resets = 0

BusClock ==
  /\ sys.status = "running"
  /\ ticks < MaxBusCalls
  /\ \E u \in UbOutcomes : sys' = bus_clock(sys, u)
  /\ phase' = "bus_clocked"
  /\ ticks' = ticks + 1
  /\ UNCHANGED <<resets, probe>>

BusClockNext == BusClock

SpecBusClock == BusClockInit /\ [][BusClockNext]_vars

(***************************************************************************)
(* The bus alone: one byte or one word written at a drawn address of a     *)
(* new bus.  probe.a is the 20-bit address, probe.alias the address the    *)
(* caller passes: the same, or the same with bit 20 set.                   *)
(***************************************************************************)
BusAddresses == {0, 1, 2, 255, 4660, 65535, 65536, 74565, 1048560, 1048574, 1048575}
BusValues == {0, 1, 90, 255, 256, 4660, 43981, 65535}

BusInit ==
  /\ \E a \in BusAddresses, v \in BusValues, hi \in {0, 1048576} :
       /\ sys = cpu8086_new(FALSE)
       /\ probe = [a |-> a, alias |-> a + hi, v |-> v]
  /\ phase = "new"
  /\ ticks = 0
  /\ resets = 0

WriteByte ==
  /\ phase = "new"
  /\ probe.v < 256
  /\ sys' = [sys EXCEPT !.memory = bus_write_byte(sys.memory, probe.alias, probe.v)]
  /\ phase' = "byte"
  /\ UNCHANGED <<ticks, resets, probe>>

WriteWord ==
  /\ phase = "new"
  /\ sys' = [sys EXCEPT !.memory = bus_write_short(sys.memory, probe.alias, probe.v)]
  /\ phase' = "word"
  /\ UNCHANGED <<ticks, resets, probe>>

BusNext == WriteByte \/ WriteWord

SpecBus == BusInit /\ [][BusNext]_vars

(***************************************************************************)
(* DAA (opcode 0x27) applied to every AL, with AF and CF set or clear.     *)
(***************************************************************************)
DaaHighBytes == {0, 171}

DaaInit ==
  /\ \E al \in 0..255, ah \in DaaHighBytes, af \in BOOLEAN, cf \in BOOLEAN :
       /\ sys = [cpu8086_new(FALSE) EXCEPT
                   !.opcode_byte = 39,
                   !.op = op_table[39 + 1],
                   !.r[AX] = ah * 256 + al,
                   !.flags = (IF af THEN FLAG_AUXILIARY ELSE 0) + (IF cf THEN FLAG_CARRY ELSE 0)]
       /\ probe = [al |-> al, ah |-> ah, af |-> af, cf |-> cf]
  /\ phase = "new"
  /\ ticks = 0
  /\ resets = 0

Daa ==
  /\ phase = "new"
  /\ sys' = Handler(sys.op.func, sys, 0)
  /\ phase' = "applied"
  /\ UNCHANGED <<ticks, resets, probe>>

DaaNext == Daa

SpecDaa == DaaInit /\ [][DaaNext]_vars

(***************************************************************************)
(* Properties.                                                             *)
(***************************************************************************)
Flag(flag) == cpu8086_getflag(sys, flag)

\* C1: whenever a control-transfer handler has run in a tick (cpu8086_jump
\* was called), the prefetch queue is left empty: the empty flag is set, the
\* half-byte cursor is 0 and the read index equals the write index; and the
\* first word the BIU fetches after it comes from the physical address of
\* the new CS:IP.
C1_JumpEmptiesQueue ==
  /\ sys.g_jumped => (sys.mt /\ sys.hl = 0 /\ sys.q_r = sys.q_w)
  /\ sys.g_ontarget

\* C2: right after a reset, whether the one of the construction or one
\* called in any later state, CS = 0xFFFF, IP = 0, DS = SS = ES = 0,
\* FLAGS = 0, the prefetch queue is marked empty and the BIU countdown is 3.
C2_ResetState ==
  phase \in {"new", "reset"} =>
    /\ sys.r[CS] = 65535
    /\ sys.ip = 0
    /\ sys.r[DS] = 0 /\ sys.r[SS] = 0 /\ sys.r[ES] = 0
    /\ sys.flags = 0
    /\ sys.mt
    /\ sys.biu_prefetch_cycles = 3

\* a reset that found CS, IP and FLAGS all changed by the program
C2_Witness ==
  /\ phase = "reset"
  /\ ticks >= 8
  /\ probe.before[1] # 65535 /\ probe.before[2] # 0 /\ probe.before[3] # 0
  /\ sys.r[CS] = 65535 /\ sys.ip = 0 /\ sys.flags = 0 /\ sys.mt

\* C3: in every reachable state the queue holds at most six bytes that were
\* fetched and that the read cursor has not yet reached; a fetched word is
\* stored only when the queue was empty or the write index differed from
\* the read index; and the store never lands on a slot that still holds
\* such a byte.
C3_QueueCapacity ==
  /\ Cardinality(sys.g_live) <= 6
  /\ sys.g_guard
  /\ ~sys.g_overwrite

\* the queue full right after the fetch that filled it: six unread bytes,
\* write index back on the read index, the BIU held off
C3_Witness ==
  /\ sys.g_fetch # <<>>
  /\ Cardinality(sys.g_live) = 6
  /\ sys.q_w = sys.q_r /\ ~sys.mt
  /\ ~BiuMayFetch(sys)

\* C4: whenever the queue holds no unconsumed byte, with the read index on
\* the write index and no half-word pending, the empty flag is set; and
\* every byte the EU dequeues is one the BIU fetched and the EU had not yet
\* consumed.
C4_DrainedIsEmpty ==
  /\ (sys.g_live = {} /\ sys.q_r = sys.q_w /\ sys.hl = 0) => sys.mt
  /\ \A i \in 1..Len(sys.g_deq) : sys.g_deq[i].live

\* C5: a push decrements SP by 2 (mod 2^16) and writes the word at SS:SP;
\* the pop that follows returns the pushed word and leaves SP as it was
\* before the push, for every word, SS and SP, wrapping ones included.
C5_PushPop ==
  /\ phase = "pushed" =>
       /\ sys.r[SP] = (probe.sp + 65534) % 65536
       /\ bus_read_short(sys.memory, probe.ss * 16 + sys.r[SP]) = probe.x
  /\ phase = "popped" =>
       /\ probe.popped = probe.x
       /\ sys.r[SP] = probe.sp

\* the round trip with SP wrapping below 0: SP = 1 goes to 0xFFFF and back
C5_Witness ==
  /\ phase = "popped"
  /\ probe.sp = 1 /\ probe.ss = 65535 /\ probe.x = 43981
  /\ probe.popped = 43981
  /\ sys.r[SP] = 1

MemoryHolds(at, bytes) ==
  \A i \in 1..Len(bytes) : bus_read_byte(sys.memory, at + i - 1) = bytes[i]

\* C6: once REP MOVSB (F3 A4) has run with CX = 4, the four bytes
\* AA BB CC DD of DS:SI.. are at ES:DI.., CX is 0 and SI and DI have moved
\* by +4 (DF = 0) or -4 (DF = 1), and the machine runs on.
C6_RepMovsb ==
  /\ (probe.name = "movsb_up" /\ sys.g_func # <<>>) =>
       /\ sys.status = "running"
       /\ MemoryHolds(512, <<170, 187, 204, 221>>)
       /\ sys.r[CX] = 0 /\ sys.r[SI] = 260 /\ sys.r[DI] = 516
  /\ (probe.name = "movsb_down" /\ sys.g_func # <<>>) =>
       /\ sys.status = "running"
       /\ MemoryHolds(512, <<170, 187, 204, 221>>)
       /\ sys.r[CX] = 0 /\ sys.r[SI] = 255 /\ sys.r[DI] = 511

\* C7: a write through the byte-register operand with encoding 0..3 changes
\* the low byte of AX/CX/DX/BX, with encoding 4..7 the high byte of
\* AX/CX/DX/BX, and nothing else: the other byte of that register and every
\* other register stay as they were.
C7_ByteRegisterEncoding ==
  phase = "written" =>
    LET w == probe.reg % 4
        old == probe.before[w]
    IN /\ sys.r[w] = IF probe.reg >= 4 THEN probe.v * 256 + (old % 256)
                     ELSE (old \div 256) * 256 + probe.v
       /\ \A i \in 0..(REGISTER_COUNT - 1) : i # w => sys.r[i] = probe.before[i]

\* C8: once the ADD of main()'s program 05 03 10 has run with AX = 0xFFFF,
\* AX is 0x1002 with CF = 1, OF = 0, SF = 0, ZF = 0, PF = 1, AF = 1, and
\* the machine runs on.
C8_AddAxImm16 ==
  (probe.name = "main" /\ sys.g_func # <<>>) =>
    /\ sys.status = "running"
    /\ sys.r[AX] = 4098
    /\ Flag(FLAG_CARRY) /\ ~Flag(FLAG_OVERFLOW) /\ ~Flag(FLAG_SIGN) /\ ~Flag(FLAG_ZERO)
    /\ Flag(FLAG_PARITY) /\ Flag(FLAG_AUXILIARY)

\* Intel's definitions of the result and the flags of the eight operations
Width == IF probe.is_word THEN 65536 ELSE 256
Msb(x) == x >= Width \div 2
IsSub == probe.name \in {"SUB", "CMP"}
IsLogic == probe.name \in {"AND", "OR", "XOR"}
IntelResult ==
  CASE probe.name = "ADD" -> (probe.a + probe.b) % Width
    [] IsSub -> (probe.a + Width - probe.b) % Width
    [] probe.name = "AND" -> BitAnd(probe.a, probe.b, 16)
    [] probe.name = "OR" -> BitOr(probe.a, probe.b, 16)
    [] probe.name = "XOR" -> BitXor(probe.a, probe.b, 16)
    [] probe.name = "INC" -> (probe.a + 1) % Width
    [] probe.name = "DEC" -> (probe.a + Width - 1) % Width
IntelCF ==
  CASE probe.name = "ADD" -> probe.a + probe.b >= Width
    [] IsSub -> probe.a < probe.b
    [] IsLogic -> FALSE
    [] OTHER -> probe.cf
IntelOF ==
  CASE probe.name \in {"ADD", "INC"} ->
         Msb(probe.a) = Msb(probe.b) /\ Msb(IntelResult) # Msb(probe.a)
    [] IsSub \/ probe.name = "DEC" ->
         Msb(probe.a) # Msb(probe.b) /\ Msb(IntelResult) # Msb(probe.a)
    [] OTHER -> FALSE
IntelAF ==
  CASE probe.name \in {"ADD", "INC"} -> (probe.a % 16) + (probe.b % 16) > 15
    [] OTHER -> (probe.a % 16) < (probe.b % 16)
RECURSIVE Ones(_)
Ones(x) == IF x = 0 THEN 0 ELSE (x % 2) + Ones(x \div 2)

\* C9: after ADD, SUB, CMP, AND, OR, XOR, INC or DEC on operands a and b at
\* byte or word width, CF, OF, SF, ZF and AF are the ones Intel defines (AF
\* is left open for AND, OR, XOR); for SUB and CMP, CF is set exactly when
\* a < b unsigned.
C9_IntelFlags ==
  phase = "applied" =>
    /\ Flag(FLAG_CARRY) = IntelCF
    /\ Flag(FLAG_OVERFLOW) = IntelOF
    /\ Flag(FLAG_SIGN) = Msb(IntelResult)
    /\ Flag(FLAG_ZERO) = (IntelResult = 0)
    /\ IsLogic \/ Flag(FLAG_AUXILIARY) = IntelAF

\* C10: after a flag-setting operation at byte or word width, PF is set
\* exactly when the low 8 bits of the result hold an even number of 1 bits.
C10_ParityOfLowByte ==
  phase = "applied" => (Flag(FLAG_PARITY) = (Ones(IntelResult % 256) % 2 = 0))

\* C11: once ADD [BX + SI - 1], CX (01 48 FF) has run with BX = 1, SI = 0,
\* CX = 1, DS = 0 and memory zero, the word at DS:0000 is 1, CF = 0 and
\* ZF = 0, and the machine runs on.
C11_AddMemDisp8 ==
  (/\ probe.name = "addmem" /\ resets = 0
   /\ (sys.stage = "CPU8086_EXECUTING" \/ sys.current_ip > 3)) =>
    /\ sys.status = "running"
    /\ bus_read_short(sys.memory, sys.r[DS] * 16 + 0) = 1
    /\ ~Flag(FLAG_CARRY) /\ ~Flag(FLAG_ZERO)

\* the tick in which op_add wrote through the operand at DS:0000, found from
\* BX + SI = 1 and the displacement byte 0xFF
C11_Witness ==
  /\ probe.name = "addmem" /\ resets = 0
  /\ sys.g_func = <<"op_add">>
  /\ sys.disp8_byte = 255
  /\ sys.destination = [type |-> "DECODED_MEMORY", address |-> 0, virtual |-> TRUE]
  /\ bus_read_short(sys.memory, 0) = 1

\* C12: once the opcode byte of JMP FAR F000:E05B (EA 5B E0 00 F0) has been
\* read at the reset vector, the machine runs on, and when the instruction
\* has executed CS = 0xF000, IP = 0xE05B and the prefetch queue is empty.
C12_JmpFar ==
  (probe.name = "jmpfar" /\ resets = 0 /\ sys.opcode_byte = 234) =>
    /\ sys.status = "running"
    /\ sys.stage = "CPU8086_EXECUTING" =>
         (sys.r[CS] = 61440 /\ sys.ip = 57435 /\ sys.mt)

\* C13: DAA adds 6 and sets AF when the low nibble of AL is above 9 or AF
\* was set, and clears AF otherwise; it adds 0x60 and sets CF when the AL
\* of the entry is above 0x99 (0x9F when AF was set) or CF was set, and
\* clears CF otherwise; AH is left alone.
C13_Daa ==
  phase = "applied" =>
    LET lo == (probe.al % 16) > 9 \/ probe.af
        hi == probe.al > (IF probe.af THEN 159 ELSE 153) \/ probe.cf
    IN /\ AL(sys) = (probe.al + (IF lo THEN 6 ELSE 0) + (IF hi THEN 96 ELSE 0)) % 256
       /\ Flag(FLAG_AUXILIARY) = lo
       /\ Flag(FLAG_CARRY) = hi
       /\ AH(sys) = probe.ah

\* AL = 0x9B with AF = 0 and CF = 0 gives AL = 0x01, CF = 1, AF = 1
C13_Witness ==
  /\ phase = "applied"
  /\ sys.op.name = "DAA"
  /\ probe.al = 155 /\ ~probe.af /\ ~probe.cf
  /\ AL(sys) = 1 /\ Flag(FLAG_CARRY) /\ Flag(FLAG_AUXILIARY)

\* C14: an opcode byte never indexes past the end of the opcode table, and
\* an opcode without a handler that reaches dispatch ends in the failed
\* assertion (the process aborts), in no other way.
C14_IllegalOpcodeAsserts ==
  /\ sys.opcode_byte # OPCODE_NONE => sys.opcode_byte < Len(op_table)
  /\ (/\ sys.opcode_byte # OPCODE_NONE
      /\ sys.op.func = "NULL"
      /\ sys.stage = "CPU8086_EXECUTING") => sys.status = "abort"

\* C15: a byte written at an address is read back at that address with
\* bit 20 set and with bit 20 clear, whichever of the two the write used.
C15_ByteMask20 ==
  phase = "byte" =>
    /\ bus_read_byte(sys.memory, probe.a + 1048576) = probe.v
    /\ bus_read_byte(sys.memory, probe.a) = probe.v

\* 0x5A written at 0xFFFFF and read back at 0x1FFFFF
C15_Witness ==
  /\ phase = "byte"
  /\ probe.a = 1048575 /\ probe.alias = probe.a /\ probe.v = 90
  /\ bus_read_byte(sys.memory, 2097151) = 90

\* C16: after a word is written at a, the byte at a is its low byte, the
\* byte at a + 1 (wrapping at 20 bits) its high byte, and the word read at
\* a is the word written.
C16_WordLittleEndian ==
  phase = "word" =>
    /\ bus_read_byte(sys.memory, probe.alias) = probe.v % 256
    /\ bus_read_byte(sys.memory, probe.alias + 1) = (probe.v \div 256) % 256
    /\ bus_read_short(sys.memory, probe.alias) = probe.v
    /\ MemAt(sys.memory, Mask20(probe.a + 1)) = (probe.v \div 256) % 256

\* 0xABCD written at 0xFFFFF: CD at 0xFFFFF and AB at 0
C16_Witness ==
  /\ phase = "word"
  /\ probe.a = 1048575 /\ probe.v = 43981
  /\ MemAt(sys.memory, 1048575) = 205
  /\ MemAt(sys.memory, 0) = 171
  /\ bus_read_short(sys.memory, probe.alias) = 43981

\* C17: after n calls of bus_clock on a new bus the cpu has been clocked
\* on the calls 1, 4, 7, ..: (n + 2) div 3 times, the last of them on call
\* n exactly when n mod 3 = 1.
C17_ClockDividedByThree ==
  /\ sys.g_cpu_ticks = (ticks + 2) \div 3
  /\ sys.cpu_clock = CRem(0 - ticks, 3)

\* seven calls: the cpu clocked on calls 1, 4 and 7, its BIU countdown run
\* down from 3 to 0
C17_Witness ==
  /\ phase = "bus_clocked"
  /\ ticks = 7
  /\ sys.g_cpu_ticks = 3
  /\ sys.biu_prefetch_cycles = 0

\* C18: a clock call does bounded work and returns: it dequeues at most
\* the six bytes of the queue and calls one handler, or, for a repeated
\* string instruction, at most as many as CX held; and the repeat loop
\* ends within its tick with CX = 0 and the machine running.
C18_ClockTerminates ==
  /\ Len(sys.g_deq) <= 6
  /\ ~sys.repeat => Len(sys.g_func) <= 1
  /\ (sys.repeat /\ sys.stage = "CPU8086_EXECUTING") =>
       /\ sys.status = "running"
       /\ sys.r[CX] = 0
       /\ Len(sys.g_func) <= sys.g_decoded[1].r[CX]

\* the order of the stages, and the stage the operand descriptors ask for
StageRank(stage) ==
  CASE stage = "CPU8086_READY" -> 0
    [] stage = "CPU8086_FETCH_MODRM" -> 1
    [] stage \in {"CPU8086_FETCH_IMM", "CPU8086_FETCH_ADDRESS"} -> 2
    [] stage = "CPU8086_DECODE_LOC" -> 3
    [] stage = "CPU8086_EXECUTING" -> 4
DescriptorStage(op, past_modrm) ==
  IF ~past_modrm /\ "LOC_RM" \in {op.destination, op.source} THEN "CPU8086_FETCH_MODRM"
  ELSE IF op.source \in {"LOC_IMM", "LOC_IMM8"} THEN "CPU8086_FETCH_IMM"
  ELSE IF "LOC_ADDR" \in {op.destination, op.source} \/ op.source = "LOC_SEGOFF"
  THEN "CPU8086_FETCH_ADDRESS"
  ELSE "CPU8086_DECODE_LOC"
\* the stage a tick found followed by the stages it set, in order
StageTrail == <<sys.g_prev>> \o sys.g_path

\* C19: in every tick each stage set lies further on in the order READY,
\* FETCH_MODRM, FETCH_IMM or FETCH_ADDRESS, DECODE_LOC, EXECUTING than the
\* one before it, except READY, which is set only after EXECUTING; the
\* stage set after READY, and the one set after FETCH_MODRM, is the one
\* the operand descriptors of the opcode ask for.
C19_StageOrder ==
  phase = "clocked" =>
    \A i \in 1..(Len(StageTrail) - 1) :
      /\ StageTrail[i + 1] = "CPU8086_READY" => StageTrail[i] = "CPU8086_EXECUTING"
      /\ StageTrail[i + 1] # "CPU8086_READY" =>
           StageRank(StageTrail[i + 1]) > StageRank(StageTrail[i])
      /\ (StageTrail[i] = "CPU8086_READY" /\ StageTrail[i + 1] # "CPU8086_READY") =>
           StageTrail[i + 1] = DescriptorStage(sys.op, FALSE)
      /\ StageTrail[i] = "CPU8086_FETCH_MODRM" =>
           StageTrail[i + 1] = DescriptorStage(sys.op, TRUE)

\* MOV byte [0x0300], 0x5A resumed in FETCH_MODRM: the displacement read,
\* FETCH_IMM chosen, and the tick ended there for want of a byte
C19_Witness ==
  /\ phase = "clocked"
  /\ probe.name = "movmem"
  /\ sys.g_prev = "CPU8086_FETCH_MODRM"
  /\ sys.g_path = <<"CPU8086_FETCH_IMM">>
  /\ sys.stage = "CPU8086_FETCH_IMM"

\* the bytes of one instruction laid out in the queue from its first cell,
\* the write index standing behind the last word
ByteOr0(bytes, k) == IF k <= Len(bytes) THEN bytes[k] ELSE 0
QueueOf(s, bytes) ==
  [s EXCEPT !.q = [i \in 0..2 |-> ByteOr0(bytes, 2 * i + 1) + 256 * ByteOr0(bytes, 2 * i + 2)],
            !.q_r = 0, !.q_w = ((Len(bytes) + 1) \div 2) % 3, !.hl = 0, !.mt = FALSE]
\* the decoder run over those bytes in one tick, from READY
OnePass(d) ==
  DecodeLoc(FetchAddress(FetchImm(FetchModrm(Ready(
    QueueOf([cpu8086_reset_execution_regs(d) EXCEPT
               !.repeat = d.repeat, !.prefix_g1 = d.prefix_g1, !.prefix_g2 = d.prefix_g2,
               !.cycles = 0, !.g_bytes = <<>>, !.status = "running"],
            d.g_bytes), 0)))))
\* what decoding leaves behind (the cycles charged on the way are spent
\* waiting when the decoding takes several ticks, and are left out)
DecodeView(s) ==
  <<s.opcode_byte, s.modrm_byte, s.disp8_byte, s.disp16_byte, s.imm8_byte, s.imm16_byte,
    s.lo_segment, s.hi_segment, s.immediate, s.rm, s.reg, s.destination, s.source,
    s.stage, s.g_bytes>>
\* the bytes of the instruction are the bytes of the code, in order, up to
\* current_ip
CodeBytes(d) ==
  [i \in 1..Len(d.g_bytes) |->
     MemAt(d.memory, Mask20(d.r[CS] * 16 + U16(d.current_ip + 65536 - Len(d.g_bytes) + i - 1)))]

\* C20: an instruction whose decoding was cut short by an empty queue and
\* taken up again in a later tick ends with the same ModR/M byte,
\* displacement, immediate and resolved operands, and has dequeued the same
\* bytes, as the decoder run over those bytes in a single tick; and when
\* every one of them was a byte the queue had fetched and not yet handed
\* out (no reset having disturbed the cursors), they are the bytes of the
\* code in order, none twice and none skipped.
C20_ResumeDecodesTheSame ==
  (sys.g_decoded # <<>> /\ sys.g_decoded[1].g_stalled) =>
    /\ DecodeView(sys.g_decoded[1]) = DecodeView(OnePass(sys.g_decoded[1]))
    /\ (resets = 0 /\ sys.g_decoded[1].g_fresh) =>
         sys.g_decoded[1].g_bytes = CodeBytes(sys.g_decoded[1])

\* MOV byte [0x0300], 0x5A decoded over three visits to the queue
C20_Witness ==
  /\ sys.g_decoded # <<>>
  /\ sys.g_decoded[1].g_stalled
  /\ resets = 0
  /\ sys.g_decoded[1].g_fresh
  /\ sys.g_decoded[1].g_bytes = <<198, 6, 0, 3, 90>>
  /\ sys.g_decoded[1].rm = 768
  /\ sys.g_decoded[1].immediate[0] = 90
  /\ sys.stage = "CPU8086_EXECUTING"

\* the prefix the bytes before an opcode ask for: the last of them in the group
RECURSIVE LastPrefix(_, _)
LastPrefix(bytes, group) ==
  IF bytes = <<>> THEN 0
  ELSE IF bytes[Len(bytes)] \in group THEN bytes[Len(bytes)]
  ELSE LastPrefix(SubSeq(bytes, 1, Len(bytes) - 1), group)
G1Repeat == {PREFIX_G1_REPNZ, PREFIX_G1_REPZ}
G2Segment == {PREFIX_G2_ES, PREFIX_G2_CS, PREFIX_G2_SS, PREFIX_G2_DS}

\* C21: when an instruction is decoded and while it executes, the G1 and G2
\* prefix recorded are those of the prefix bytes that came right before its
\* opcode (NONE without them) and repeat is set exactly for a string opcode
\* behind a repeat prefix; and the first byte of every instruction is
\* dequeued with both prefixes NONE and repeat false.
C21_PrefixForOneInstruction ==
  /\ sys.g_clean
  /\ sys.g_decoded # <<>> =>
       /\ sys.g_decoded[1].prefix_g1 = LastPrefix(sys.g_decoded[1].g_opre, G1Repeat)
       /\ sys.g_decoded[1].prefix_g2 = LastPrefix(sys.g_decoded[1].g_opre, G2Segment)
       /\ sys.g_decoded[1].repeat =
            (sys.g_decoded[1].prefix_g1 # PREFIX_G1_NONE /\ sys.g_decoded[1].op.is_string)
  /\ (sys.stage = "CPU8086_EXECUTING" /\ sys.g_decoded # <<>>) =>
       /\ sys.prefix_g1 = sys.g_decoded[1].prefix_g1
       /\ sys.prefix_g2 = sys.g_decoded[1].prefix_g2

\* the MOV behind ES: MOV has been decoded: no prefix byte before it, none
\* recorded
C21_Witness ==
  /\ probe.name = "segover"
  /\ sys.g_decoded # <<>>
  /\ sys.g_decoded[1].g_bytes = <<136, 15>>
  /\ sys.g_decoded[1].g_opre = <<>>
  /\ sys.g_decoded[1].prefix_g2 = PREFIX_G2_NONE
  /\ sys.g_clean

\* C22: a tick that finds cycles owed dequeues nothing, calls no handler and
\* takes one cycle off; a tick that carries an instruction through with N
\* cycles charged leaves N - 1 owed; and no first byte of an instruction is
\* dequeued before the N-th tick after that.
C22_CyclesOwed ==
  /\ (phase = "clocked" /\ sys.g_cyc0 > 0) =>
       /\ sys.g_deq = <<>>
       /\ sys.g_func = <<>>
       /\ sys.cycles = sys.g_cyc0 - 1
  /\ (phase = "clocked" /\ sys.status = "running" /\ sys.g_n >= 0 /\ sys.g_since = 0) =>
       sys.cycles = sys.g_n - 1
  /\ sys.g_gap

\* the operand LOC_RM stands for, as resolved
RmOperand(d) == IF d.op.destination = "LOC_RM" THEN d.destination ELSE d.source
\* where the register numbered n lies: AX..DI for a word, and for a byte
\* AL, CL, DL, BL in the low and AH, CH, DH, BH in the high bytes of AX..BX
RegisterAt(n, is_word) ==
  IF is_word THEN RegBase + 2 * n ELSE RegBase + 2 * (n % 4) + (n \div 4)

\* C23: an instruction decoded with a ModR/M byte of mod = 11 has as its RM
\* operand the register numbered by the rm field, at the width of the
\* opcode.
C23_ModRegOperand ==
  (/\ sys.g_decoded # <<>>
   /\ "LOC_RM" \in {sys.g_decoded[1].op.destination, sys.g_decoded[1].op.source}
   /\ ModField(sys.g_decoded[1]) = MOD_REG) =>
    /\ sys.g_decoded[1].rm = RegisterAt(RmField(sys.g_decoded[1]), sys.g_decoded[1].op.is_word)
    /\ RmOperand(sys.g_decoded[1]).address = sys.g_decoded[1].rm

(***************************************************************************)
(* The FETCH_MODRM stage alone, for MOV r/m8, r8 (0x88): a ModR/M byte     *)
(* with a memory form and its displacement bytes stand in the queue, under *)
(* every segment-override prefix and none.                                 *)
(***************************************************************************)
EaPrefixes == {PREFIX_G2_NONE, PREFIX_G2_ES, PREFIX_G2_CS, PREFIX_G2_SS, PREFIX_G2_DS}
EaDisps == {<<0, 0>>, <<255, 255>>, <<16, 128>>}
EaFills == {0, 61440}
EaRegs(fill) ==
  [i \in 0..(REGISTER_COUNT - 1) |->
     CASE i = BX -> fill + 291
       [] i = BP -> fill + 1110
       [] i = SI -> fill + 1929
       [] i = DI -> fill + 2748
       [] i = ES -> 4096
       [] i = CS -> 8192
       [] i = SS -> 12288
       [] i = DS -> 65535
       [] OTHER -> 0]

EaInit ==
  /\ \E mod \in {MOD_INDIRECT, MOD_DISP8, MOD_DISP16}, rmf \in 0..7,
        prefix \in EaPrefixes, disp \in EaDisps, fill \in EaFills :
       /\ sys = QueueOf([cpu8086_new(FALSE) EXCEPT
                           !.r = EaRegs(fill),
                           !.opcode_byte = 136,
                           !.op = op_table[136 + 1],
                           !.prefix_g2 = prefix,
                           !.stage = "CPU8086_FETCH_MODRM"],
                        <<mod * 64 + rmf, disp[1], disp[2]>>)
       /\ probe = [mod |-> mod, rm |-> rmf, prefix |-> prefix, disp |-> disp]
  /\ phase = "new"
  /\ ticks = 0
  /\ resets = 0

Ea ==
  /\ phase = "new"
  /\ sys' = FetchModrm(sys)
  /\ phase' = "resolved"
  /\ UNCHANGED <<ticks, resets, probe>>

EaNext == Ea

SpecEa == EaInit /\ [][EaNext]_vars

\* the 16-bit effective address and the segment of the 8086's memory forms
EaOffset ==
  LET base == CASE probe.rm = 0 -> sys.r[BX] + sys.r[SI]
                [] probe.rm = 1 -> sys.r[BX] + sys.r[DI]
                [] probe.rm = 2 -> sys.r[BP] + sys.r[SI]
                [] probe.rm = 3 -> sys.r[BP] + sys.r[DI]
                [] probe.rm = 4 -> sys.r[SI]
                [] probe.rm = 5 -> sys.r[DI]
                [] probe.rm = 6 -> IF probe.mod = 0 THEN probe.disp[1] + 256 * probe.disp[2]
                                   ELSE sys.r[BP]
                [] probe.rm = 7 -> sys.r[BX]
      disp == CASE probe.mod = 1 -> IF probe.disp[1] >= 128 THEN probe.disp[1] + 65280
                                    ELSE probe.disp[1]
                [] probe.mod = 2 -> probe.disp[1] + 256 * probe.disp[2]
                [] OTHER -> 0
  IN (base + disp) % 65536
EaSegment ==
  CASE probe.prefix = 38 -> ES
    [] probe.prefix = 46 -> CS
    [] probe.prefix = 54 -> SS
    [] probe.prefix = 62 -> DS
    [] OTHER -> IF probe.rm \in {2, 3} \/ (probe.rm = 6 /\ probe.mod # 0) THEN SS ELSE DS

\* C24: for mod # 11 the RM address is ((segment << 4) + offset) & 0xFFFFF,
\* the segment being the one a G2 prefix names and otherwise SS for the forms
\* based on BP and DS for the others.
C24_MemoryRmAddress ==
  phase = "resolved" =>
    /\ sys.rm = (sys.r[EaSegment] * 16 + EaOffset) % 1048576
    /\ sys.stage = "CPU8086_DECODE_LOC"

\* [BP + DI + disp8] under CS:, the sum wrapping past 0xFFFF
C24_Witness ==
  /\ phase = "resolved"
  /\ probe.mod = 1 /\ probe.rm = 3 /\ probe.prefix = 46 /\ probe.disp[1] = 255
  /\ sys.r[BP] = 62550
  /\ sys.rm = 8192 * 16 + ((62550 + 64188 + 65535) % 65536)

\* C25: an instruction decoded with an IMM or IMM8 source and no RM operand
\* has its source resolved as an immediate, located at the immediate fetched
\* from the instruction stream.
C25_ImmediateSource ==
  (/\ sys.g_decoded # <<>>
   /\ sys.g_decoded[1].op.source \in {"LOC_IMM", "LOC_IMM8"}
   /\ sys.g_decoded[1].op.destination # "LOC_RM") =>
    /\ sys.g_decoded[1].source.type = "DECODED_IMMEDIATE"
    /\ sys.g_decoded[1].source.address = ImmPtr

\* the operations of the immediate group in the order of the reg field
ImmGroupOrder ==
  <<"op_add", "op_or", "op_adc", "op_sbb", "op_and", "op_sub", "op_xor", "op_cmp">>

\* C26: for 0x80..0x83 and 0xC6/0xC7 the source operand is the immediate
\* fetched after the ModR/M bytes, the handler called for 0x80..0x83 is the
\* one the reg field selects, and so SUB byte [0x0300], 5 takes 5 off the
\* 0x10 in memory and MOV byte [0x0300], 0x5A stores 0x5A.
C26_ImmediateGroupSource ==
  /\ (sys.g_decoded # <<>> /\ sys.g_decoded[1].opcode_byte \in (128..131) \cup {198, 199}) =>
       /\ sys.g_decoded[1].source.type = "DECODED_IMMEDIATE"
       /\ sys.g_decoded[1].source.address = ImmPtr
  /\ (sys.opcode_byte \in 128..131 /\ sys.g_func # <<>>) =>
       sys.g_func[1] = ImmGroupOrder[RegField(sys) + 1]
  /\ (probe.name = "immgrp" /\ sys.g_func # <<>>) =>
       /\ sys.status = "running"
       /\ MemAt(sys.memory, 768) = 11
  /\ (probe.name = "movmem" /\ sys.g_func # <<>>) =>
       /\ sys.status = "running"
       /\ MemAt(sys.memory, 768) = 90

\* the word of memory at a physical address, low byte first
WordAt(memory, a) == MemAt(memory, Mask20(a)) + 256 * MemAt(memory, Mask20(a + 1))
\* the offset and segment words of a far pointer in the instruction stream
FarOffset(bytes) == bytes[2] + 256 * bytes[3]
FarSegment(bytes) == bytes[4] + 256 * bytes[5]

\* C27: in the tick that executes CALL far, the immediate holds the offset
\* word in its low and the segment word in its high half, the old CS and
\* then the offset of the next instruction have been pushed, CS:IP is the
\* far pointer of the instruction, and the cursors of the queue are cleared.
C27_CallFar ==
  (/\ sys.g_func = <<"op_callfar">>
   /\ sys.g_decoded # <<>>
   /\ Len(sys.g_decoded[1].g_bytes) = 5) =>
    /\ sys.status = "running"
    /\ sys.immediate[0] = FarOffset(sys.g_decoded[1].g_bytes)
    /\ sys.immediate[1] = FarSegment(sys.g_decoded[1].g_bytes)
    /\ sys.r[SP] = U16(sys.g_decoded[1].r[SP] + 65536 - 4)
    /\ WordAt(sys.memory, sys.r[SS] * 16 + U16(sys.r[SP] + 2)) = sys.g_decoded[1].r[CS]
    /\ WordAt(sys.memory, sys.r[SS] * 16 + sys.r[SP]) = sys.g_decoded[1].current_ip
    /\ sys.ip = FarOffset(sys.g_decoded[1].g_bytes)
    /\ sys.r[CS] = FarSegment(sys.g_decoded[1].g_bytes)
    /\ sys.q_r = sys.q_w /\ sys.hl = 0

(***************************************************************************)
(* CALL far and then RET far (0xCB), each carried through its EXECUTING    *)
(* stage, from drawn CS, current_ip, SS, SP and far pointers.              *)
(***************************************************************************)
FarSegments == {0, 61440, 65535}
FarOffsets == {0, 5, 65535}
FarPointers == {<<2, 64>>, <<65535, 61440>>}
FarStackPointers == {0, 2, 3, 4, 256, 65534}

FarInit ==
  /\ \E cs \in FarSegments, ss \in FarSegments, cip \in FarOffsets,
        sp \in FarStackPointers, ptr \in FarPointers :
       /\ sys = [cpu8086_new(FALSE) EXCEPT
                   !.r[CS] = cs, !.r[SS] = ss, !.r[SP] = sp,
                   !.current_ip = cip,
                   !.opcode_byte = 154,
                   !.op = op_table[154 + 1],
                   !.immediate = [h \in 0..1 |-> ptr[h + 1]],
                   !.source = [type |-> "DECODED_IMMEDIATE", address |-> ImmPtr,
                               virtual |-> FALSE],
                   !.stage = "CPU8086_EXECUTING"]
       /\ probe = [cs |-> cs, current_ip |-> cip, sp |-> sp]
  /\ phase = "new"
  /\ ticks = 0
  /\ resets = 0

FarCall ==
  /\ phase = "new"
  /\ \E u \in UbOutcomes : sys' = Executing(sys, u)
  /\ phase' = "called"
  /\ UNCHANGED <<ticks, resets, probe>>

FarRet ==
  /\ phase = "called"
  /\ sys.status = "running"
  /\ \E u \in UbOutcomes :
       sys' = Executing(DecodeLoc([cpu8086_reset_execution_regs(sys) EXCEPT
                                     !.opcode_byte = 203,
                                     !.op = op_table[203 + 1],
                                     !.cycles = 0,
                                     !.stage = "CPU8086_DECODE_LOC"]), u)
  /\ phase' = "returned"
  /\ UNCHANGED <<ticks, resets, probe>>

FarNext == FarCall \/ FarRet

SpecFar == FarInit /\ [][FarNext]_vars

\* C28: after CALL far and then RET far, CS and current_ip are those the
\* CALL found (current_ip being the offset of the instruction behind it)
\* and SP is as before the CALL.
C28_FarCallThenRet ==
  phase = "returned" =>
    /\ sys.status = "running"
    /\ sys.r[CS] = probe.cs
    /\ sys.current_ip = probe.current_ip
    /\ sys.ip = probe.current_ip
    /\ sys.r[SP] = probe.sp

\* the two pushes wrap below SP = 2, and the return finds its way back
C28_Witness ==
  /\ phase = "returned"
  /\ probe.sp = 2 /\ probe.cs = 61440 /\ probe.current_ip = 5
  /\ sys.g_func = <<"op_callfar", "op_retfar">>
  /\ sys.r[SP] = 2 /\ sys.r[CS] = 61440 /\ sys.current_ip = 5

(***************************************************************************)
(* One conditional jump 0x70..0x7F alone: opcode and offset byte stand in  *)
(* the queue of a machine fresh from cpu8086_new, under every setting of   *)
(* the five flags the jumps look at, and the EU runs it in one tick.       *)
(***************************************************************************)
JccOpcodes == 112..127
JccOffsets == {4, 252, 128}
JccStarts == {8, 65534}
JccFlagBits == {FLAG_CARRY, FLAG_PARITY, FLAG_ZERO, FLAG_SIGN, FLAG_OVERFLOW}
RECURSIVE FlagWord(_)
FlagWord(bits) ==
  IF bits = {} THEN 0
  ELSE LET b == CHOOSE x \in bits : TRUE IN b + FlagWord(bits \ {b})

JccInit ==
  /\ \E opc \in JccOpcodes, off \in JccOffsets, cip \in JccStarts,
        bits \in SUBSET JccFlagBits :
       /\ sys = QueueOf([cpu8086_new(FALSE) EXCEPT
                           !.flags = FlagWord(bits),
                           !.ip = cip + 2,
                           !.current_ip = cip],
                        <<opc, off>>)
       /\ probe = [opcode |-> opc, offset |-> off, current_ip |-> cip]
  /\ phase = "new"
  /\ ticks = 0
  /\ resets = 0

Jcc ==
  /\ phase = "new"
  /\ \E u \in UbOutcomes : sys' = Stage(sys, u)
  /\ phase' = "jumped"
  /\ UNCHANGED <<ticks, resets, probe>>

JccNext == Jcc

SpecJcc == JccInit /\ [][JccNext]_vars

\* the predicate of a conditional jump by its opcode: the odd opcode of a
\* pair jumps on the opposite of the even one
JccCondition(opc, flags) ==
  LET cf == (flags \div FLAG_CARRY) % 2 = 1
      pf == (flags \div FLAG_PARITY) % 2 = 1
      zf == (flags \div FLAG_ZERO) % 2 = 1
      sf == (flags \div FLAG_SIGN) % 2 = 1
      of == (flags \div FLAG_OVERFLOW) % 2 = 1
      pair == (opc - 112) \div 2
      even == CASE pair = 0 -> of
                [] pair = 1 -> cf
                [] pair = 2 -> zf
                [] pair = 3 -> cf \/ zf
                [] pair = 4 -> sf
                [] pair = 5 -> pf
                [] pair = 6 -> sf # of
                [] pair = 7 -> (sf # of) \/ zf
  IN even # (opc % 2 = 1)
SignExtend8(b) == IF b >= 128 THEN b + 65280 ELSE b

\* C29: a conditional jump is taken exactly when its predicate holds; taken,
\* IP is current_ip plus the sign-extended offset byte of the instruction,
\* CS stays, the queue cursors are cleared and 16 cycles are charged; not
\* taken, CS, IP and the queue stay and 4 cycles are charged.
C29_ConditionalJumps ==
  phase = "jumped" =>
    /\ sys.status = "running"
    /\ sys.g_jumped = JccCondition(probe.opcode, sys.flags)
    /\ sys.r[CS] = 65535
    /\ sys.g_jumped =>
         /\ sys.ip = (probe.current_ip + 2 + SignExtend8(probe.offset)) % 65536
         /\ sys.q_r = sys.q_w /\ sys.hl = 0
         /\ sys.g_n = 16
    /\ ~sys.g_jumped =>
         /\ sys.ip = probe.current_ip + 2
         /\ sys.q_r = 1 /\ sys.q_w = 1 /\ sys.hl = 0 /\ sys.mt
         /\ sys.g_n = 4

\* C30: in the tick that executes LDS or LES with a memory operand, the
\* destination register holds the word at the RM address and the word two
\* bytes further on is in DS for LDS and in ES for LES, the other of the two
\* segment registers being as before.
C30_LdsLes ==
  (/\ sys.g_decoded # <<>>
   /\ sys.g_func \in {<<"op_lds">>, <<"op_les">>}
   /\ ModField(sys.g_decoded[1]) # MOD_REG) =>
    /\ sys.status = "running"
    /\ sys.r[RegField(sys.g_decoded[1])] = WordAt(sys.g_decoded[1].memory, sys.g_decoded[1].rm)
    /\ sys.g_func = <<"op_lds">> =>
         /\ sys.r[DS] = WordAt(sys.g_decoded[1].memory, sys.g_decoded[1].rm + 2)
         /\ sys.r[ES] = sys.g_decoded[1].r[ES]
    /\ sys.g_func = <<"op_les">> =>
         /\ sys.r[ES] = WordAt(sys.g_decoded[1].memory, sys.g_decoded[1].rm + 2)
         /\ sys.r[DS] = sys.g_decoded[1].r[DS]

(***************************************************************************)
(* LEA AX, m (0x8D) alone: the memory forms of SpecEa, decoded from        *)
(* FETCH_MODRM on and executed.                                            *)
(***************************************************************************)
LeaInit ==
  /\ \E mod \in {MOD_INDIRECT, MOD_DISP8, MOD_DISP16}, rmf \in 0..7,
        prefix \in EaPrefixes, disp \in EaDisps, fill \in EaFills :
       /\ sys = QueueOf([cpu8086_new(FALSE) EXCEPT
                           !.r = EaRegs(fill),
                           !.opcode_byte = 141,
                           !.op = op_table[141 + 1],
                           !.prefix_g2 = prefix,
                           !.stage = "CPU8086_FETCH_MODRM"],
                        <<mod * 64 + rmf, disp[1], disp[2]>>)
       /\ probe = [mod |-> mod, rm |-> rmf, prefix |-> prefix, disp |-> disp]
  /\ phase = "new"
  /\ ticks = 0
  /\ resets = 0

Lea ==
  /\ phase = "new"
  /\ \E u \in UbOutcomes : sys' = Executing(DecodeLoc(FetchModrm(sys)), u)
  /\ phase' = "loaded"
  /\ UNCHANGED <<ticks, resets, probe>>

LeaNext == Lea

SpecLea == LeaInit /\ [][LeaNext]_vars

\* C31: LEA leaves in its destination register (AX here) the 16-bit
\* effective address of the memory operand, whatever the segment registers
\* and the segment-override prefix.
C31_LeaEffectiveAddress ==
  phase = "loaded" =>
    /\ sys.status = "running"
    /\ sys.g_func = <<"op_lea">>
    /\ sys.r[AX] = EaOffset

(***************************************************************************)
(* SAHF (0x9E) and LAHF (0x9F) alone, on every AH with two values of AL    *)
(* and a choice of FLAGS words.                                            *)
(***************************************************************************)
AhfFlagWords == {0, 65535, 3840, 213, 2048 + 128 + 1, 1024 + 64 + 16 + 2, 512 + 4, 21845}
AhfLowBytes == {0, 165}

AhfInit ==
  /\ \E opc \in {158, 159}, ah \in 0..255, al \in AhfLowBytes, fl \in AhfFlagWords :
       /\ sys = [cpu8086_new(FALSE) EXCEPT
                   !.opcode_byte = opc,
                   !.op = op_table[opc + 1],
                   !.r[AX] = ah * 256 + al,
                   !.flags = fl]
       /\ probe = [opc |-> opc, ah |-> ah, al |-> al, flags |-> fl]
  /\ phase = "new"
  /\ ticks = 0
  /\ resets = 0

Ahf ==
  /\ phase = "new"
  /\ sys' = Handler(sys.op.func, sys, 0)
  /\ phase' = "applied"
  /\ UNCHANGED <<ticks, resets, probe>>

AhfNext == Ahf

SpecAhf == AhfInit /\ [][AhfNext]_vars

SahfBits == {0, 2, 4, 6, 7}

\* C32: SAHF copies bits 0, 2, 4, 6 and 7 of AH into CF, PF, AF, ZF and SF
\* and leaves every other bit of FLAGS and AX as they were; LAHF sets AH to
\* the low byte of FLAGS and leaves FLAGS and AL as they were.
C32_SahfLahf ==
  phase = "applied" =>
    /\ sys.status = "running"
    /\ probe.opc = 158 =>
         /\ \A b \in 0..15 :
              (sys.flags \div (2 ^ b)) % 2 =
                IF b \in SahfBits THEN (probe.ah \div (2 ^ b)) % 2
                ELSE (probe.flags \div (2 ^ b)) % 2
         /\ sys.r[AX] = probe.ah * 256 + probe.al
    /\ probe.opc = 159 =>
         /\ sys.r[AX] \div 256 = probe.flags % 256
         /\ sys.r[AX] % 256 = probe.al
         /\ sys.flags = probe.flags
    /\ \A i \in 1..(REGISTER_COUNT - 1) : sys.r[i] = cpu8086_new(FALSE).r[i]
    /\ sys.memory = cpu8086_new(FALSE).memory

C32_Witness ==
  /\ phase = "applied"
  /\ probe.opc = 158
  /\ probe.ah = 213
  /\ probe.flags = 3840
  /\ sys.flags = 3840 + 213

\* C33: NOP (0x90) runs to completion and leaves every register, FLAGS and
\* memory as they were; XCHG reg16, AX (0x91..0x97) runs to completion and
\* leaves the two registers exchanged.
C33_NopAndXchgAx ==
  (/\ sys.g_decoded # <<>>
   /\ sys.g_func = <<"op_xchg">>
   /\ sys.g_decoded[1].opcode_byte \in 144..151) =>
    LET d == sys.g_decoded[1]
        reg == d.opcode_byte - 144
    IN /\ sys.status = "running"
       /\ sys.r[reg] = d.r[AX]
       /\ sys.r[AX] = d.r[reg]
       /\ \A i \in 0..(REGISTER_COUNT - 1) : i \notin {AX, reg} => sys.r[i] = d.r[i]
       /\ sys.flags = d.flags
       /\ sys.memory = d.memory

StringOpcodes == {164, 165, 166, 167, 170, 171, 172, 173, 174, 175}
StringUsesSI == {164, 165, 166, 167, 172, 173}
StringUsesDI == {164, 165, 166, 167, 170, 171, 174, 175}

StringDelta(d) ==
  (IF d.op.is_word THEN 2 ELSE 1) * (IF cpu8086_getflag(d, FLAG_DIRECTION) THEN -1 ELSE 1)

\* C34: a string primitive without a repeat prefix calls its handler once;
\* MOVS copies one element from the source segment (DS, or the G2 override)
\* at SI to ES:DI; SI and DI, where the primitive uses them, advance by the
\* element size, upwards with DF clear and downwards with DF set.
C34_StringWithoutRep ==
  (/\ sys.g_decoded # <<>>
   /\ sys.g_func # <<>>
   /\ sys.g_decoded[1].opcode_byte \in StringOpcodes
   /\ ~sys.g_decoded[1].repeat) =>
    LET d == sys.g_decoded[1]
        seg == IF d.prefix_g2 = PREFIX_G2_NONE THEN DS ELSE ES + (d.prefix_g2 - PREFIX_G2_ES) \div 8
        from == (d.r[seg] * 16 + d.r[SI]) % 1048576
        to == (d.r[ES] * 16 + d.r[DI]) % 1048576
    IN /\ sys.status = "running"
       /\ Len(sys.g_func) = 1
       /\ sys.r[SI] = IF d.opcode_byte \in StringUsesSI
                       THEN U16(d.r[SI] + StringDelta(d)) ELSE d.r[SI]
       /\ sys.r[DI] = IF d.opcode_byte \in StringUsesDI
                       THEN U16(d.r[DI] + StringDelta(d)) ELSE d.r[DI]
       /\ d.opcode_byte = 164 => MemAt(sys.memory, to) = MemAt(d.memory, from)

(***************************************************************************)
(* WAIT (0x9B), then INC CX and INC DX, with the TEST input set by the     *)
(* environment before every tick.                                          *)
(***************************************************************************)
MaxWaitTicks == 80

WaitScenario ==
  [name |-> "wait", code |-> <<155, 65, 66>>, regs |-> <<>>, flags |-> 0, data |-> <<>>]

WaitInit ==
  /\ \E nd \in BOOLEAN : sys = Load(cpu8086_new(nd), WaitScenario)
  /\ phase = "loaded"
  /\ ticks = 0
  /\ resets = 0
  /\ probe = [name |-> "wait", before |-> <<>>]

WaitClock ==
  /\ sys.status = "running"
  /\ ticks < MaxWaitTicks
  /\ \E test \in BOOLEAN, u \in UbOutcomes :
       sys' = cpu8086_clock([sys EXCEPT !.test = test], u)
  /\ phase' = "clocked"
  /\ ticks' = ticks + 1
  /\ UNCHANGED <<resets, probe>>

WaitNext == WaitClock

SpecWait == WaitInit /\ [][WaitNext]_vars

\* C35: the tick that runs WAIT leaves 3 cycles charged less the one of that
\* tick.  On every later tick that starts with WAIT as the last opcode and
\* has TEST asserted, 5 more cycles are charged (then one counted), nothing
\* is dequeued and no handler runs.  With TEST deasserted the counter only
\* counts down, and the tick that starts with it at 0 dequeues the next
\* instruction.
C35_WaitForTest ==
  phase = "clocked" =>
    /\ sys.status = "running"
    /\ sys.g_func = <<"op_wait">> => sys.cycles = 3 - 1
    /\ (sys.g_op0 = 155 /\ sys.test) =>
         /\ sys.cycles = U8(sys.g_cyc0 + 5) - 1
         /\ sys.g_deq = <<>>
         /\ sys.g_func = <<>>
         /\ sys.opcode_byte = 155
    /\ (sys.g_op0 = 155 /\ ~sys.test /\ sys.g_cyc0 > 0) =>
         /\ sys.cycles = sys.g_cyc0 - 1
         /\ sys.g_deq = <<>>
         /\ sys.g_func = <<>>
    /\ (sys.g_op0 = 155 /\ ~sys.test /\ sys.g_cyc0 = 0) =>
         /\ sys.g_deq # <<>>
         /\ sys.g_deq[1].byte = 65
         /\ sys.g_func = <<"op_inc">>

\* the decode scratch cpu8086_reset_execution_regs is to clear, and the stage
DecodeScratch(s) ==
  <<s.opcode_byte, s.modrm_byte, s.disp8_byte, s.disp16_byte, s.imm8_byte, s.imm16_byte,
    s.lo_segment, s.hi_segment, s.prefix_g1, s.prefix_g2, s.repeat, s.stage>>

ScratchSentinels ==
  <<OPCODE_NONE, MODRM_NONE, DISP8_NONE, DISP16_NONE, IMM8_NONE, IMM16_NONE,
    LO_SEGMENT_NONE, HI_SEGMENT_NONE, PREFIX_G1_NONE, PREFIX_G2_NONE, FALSE, "CPU8086_READY">>

Invalidated(loc) == loc.type = "DECODED_NULL" \/ loc = NullLocation

\* C36: at the end of the tick in which the handler, or the repeat loop, of
\* an instruction has completed, one cycle has been taken off the charge,
\* the decode scratch holds its sentinels with the stage at READY, and the
\* destination and source locations are invalid.
C36_ScratchClearedAtCompletion ==
  (/\ phase = "clocked"
   /\ sys.status = "running"
   /\ sys.g_n >= 0
   /\ sys.g_since = 0) =>
    /\ sys.cycles = U8(sys.g_n + 255)
    /\ DecodeScratch(sys) = ScratchSentinels
    /\ Invalidated(sys.destination)
    /\ Invalidated(sys.source)

\* C37: a fetch that ends a run of ticks on all of which the queue was not
\* full comes on the fourth tick after the fetch before it (or after the
\* construction or reset), and such a run has no four ticks without a fetch;
\* a fetch moves IP on by two from an even IP; on a tick that finds the queue
\* full the BIU leaves its countdown and IP alone and fetches nothing.
C37_FetchEveryFourTicks ==
  phase = "clocked" =>
    LET b == sys.g_biu
    IN /\ (sys.g_fetch # <<>> /\ b.cont) => b.gap = 4
       /\ sys.g_cont => sys.g_run <= 3
       /\ Len(sys.g_fetch) <= 1
       /\ (sys.g_fetch # <<>> /\ b.ip0 % 2 = 0) => b.ip1 = U16(b.ip0 + 2)
       /\ sys.g_fetch # <<>> => b.may
       /\ ~b.may => (b.c1 = b.c0 /\ b.ip1 = b.ip0)

\* the third fetch in a row at the pace of four ticks
C37_Witness ==
  /\ phase = "clocked"
  /\ resets = 0
  /\ ticks = 12
  /\ sys.g_fetch # <<>>
  /\ sys.g_biu.cont
  /\ sys.g_biu.gap = 4
  /\ sys.g_biu.ip1 = 6

\* C38: on a CPU that has not been reset since its construction and has made
\* no control transfer, every byte dequeued is the memory byte at the
\* physical address of CS:current_ip as current_ip was before the dequeue,
\* and the k-th byte dequeued is the one at offset k - 1 of the reset
\* segment.
C38_StraightLineBytes ==
  (resets = 0 /\ ~sys.g_jumps) =>
    \A i \in DOMAIN sys.g_deq :
      /\ sys.g_deq[i].byte = MemAt(sys.memory, sys.g_deq[i].at)
      /\ sys.g_deq[i].at = Mask20(65535 * 16 + sys.g_deq[i].n)

\* the eighth byte, from the word that reuses the first queue slot
C38_Witness ==
  /\ resets = 0
  /\ ~sys.g_jumps
  /\ probe.name = "incs"
  /\ sys.g_deq # <<>>
  /\ sys.g_deq[1].n = 7
  /\ sys.g_deq[1].byte = 65

\* C39: after a control transfer every byte dequeued was fetched after the
\* transfer and is the memory byte at the physical address of CS:current_ip
\* as current_ip was before the dequeue, current_ip having been set to the
\* target by the transfer and moved on by one with every dequeue.
C39_BytesAfterTransfer ==
  (sys.g_jumps /\ ~sys.g_jumped) =>
    \A i \in DOMAIN sys.g_deq :
      /\ sys.g_deq[i].live
      /\ sys.g_deq[i].byte = MemAt(sys.memory, sys.g_deq[i].at)

\* C40: right after a reset called in any state the read index equals the
\* write index, the half-word cursor is 0, the stage is READY and no cycle
\* is owed; and the first byte dequeued after the reset is the memory byte
\* at 0xFFFF0.
C40_ResetQueue ==
  /\ phase = "reset" =>
       /\ sys.q_r = sys.q_w
       /\ sys.hl = 0
       /\ sys.stage = "CPU8086_READY"
       /\ sys.cycles = 0
  /\ (resets > 0 /\ ~sys.g_jumps) =>
       \A i \in DOMAIN sys.g_deq :
         sys.g_deq[i].n = 0 =>
           /\ sys.g_deq[i].at = ResetVector
           /\ sys.g_deq[i].byte = MemAt(sys.memory, ResetVector)

====
